---------------------------- MODULE Spec2Model ----------------------------
(***************************************************************************)
(* Retrieval-and-ranking engine of the chatbot (src/chat.js, lines 1-970): *)
(* the knowledge store (KnowledgeBase), the scorer and ranker              *)
(* (findTopMatches, calculateBoosts), the response cache (QueryCache) and  *)
(* the request pipeline (ChatBot.processQuery).                            *)
(*                                                                         *)
(* Representation.  A text is a sequence of one-character strings, so that *)
(* toLowerCase, trim, split and the regular expressions are computed on    *)
(* characters.  A score is a number in hundredths (Scale): every floating  *)
(* point operation of the code is the exact result rounded to the nearest  *)
(* representable number, and so it is here, on a coarser grid.             *)
(***************************************************************************)
EXTENDS Integers, Sequences, FiniteSets, TLC

----------------------------------------------------------------------------
(* Characters and strings                                                  *)

LowerLetters ==
  << "a","b","c","d","e","f","g","h","i","j","k","l","m",
     "n","o","p","q","r","s","t","u","v","w","x","y","z" >>

UpperLetters ==
  << "A","B","C","D","E","F","G","H","I","J","K","L","M",
     "N","O","P","Q","R","S","T","U","V","W","X","Y","Z" >>

Range(s) == { s[i] : i \in DOMAIN s }

UpperSet == Range(UpperLetters)

LowerOf ==
  [ c \in UpperSet |-> LowerLetters[CHOOSE i \in DOMAIN UpperLetters : UpperLetters[i] = c] ]

\* String.prototype.toLowerCase, one character
LowerChar(c) == IF c \in UpperSet THEN LowerOf[c] ELSE c

\* String.prototype.toLowerCase
toLowerCase(s) == [ i \in 1..Len(s) |-> LowerChar(s[i]) ]

\* the regular expression class \s
IsSpace(c) == c \in {" ", "\t", "\n"}

WordChars ==
  Range(LowerLetters) \cup UpperSet \cup {"0","1","2","3","4","5","6","7","8","9","_"}

\* the regular expression class \w
IsWordChar(c) == c \in WordChars

\* String.prototype.trim: the text without its leading and trailing whitespace
trim(s) ==
  LET idx == { i \in 1..Len(s) : ~IsSpace(s[i]) }
  IN  IF idx = {} THEN << >>
      ELSE LET lo == CHOOSE i \in idx : \A j \in idx : i <= j
               hi == CHOOSE i \in idx : \A j \in idx : j <= i
           IN  SubSeq(s, lo, hi)

\* String.prototype.includes: needle occurs in hay as a contiguous substring
includes(hay, needle) ==
  \E i \in 1..(Len(hay) - Len(needle) + 1) :
     SubSeq(hay, i, i + Len(needle) - 1) = needle

\* needle occurs in s at position i with a word boundary (\b) on both sides
WordAt(s, i, needle) ==
  /\ i >= 1
  /\ i + Len(needle) - 1 <= Len(s)
  /\ SubSeq(s, i, i + Len(needle) - 1) = needle
  /\ (i = 1 \/ ~IsWordChar(s[i - 1]))
  /\ (i + Len(needle) - 1 = Len(s) \/ ~IsWordChar(s[i + Len(needle)]))

\* /\b(a1|a2|...)\b/i.test(s), for alternatives that begin and end with a
\* word character
TestWords(s, alts) ==
  LET l == toLowerCase(s)
  IN  \E i \in 1..Len(l) :
        /\ (i = 1 \/ ~IsWordChar(l[i - 1]))
        /\ \E a \in alts : WordAt(l, i, a)

\* /^(a1|a2|...)\b/i.test(s)
TestPrefixWords(s, alts) ==
  LET l == toLowerCase(s)
  IN  \E a \in alts : WordAt(l, 1, a)

\* String.prototype.split(/\s+/): the maximal runs of non-whitespace, with an
\* empty first (last) piece when the text begins (ends) with whitespace
RECURSIVE SplitFrom(_, _, _, _)
SplitFrom(s, i, cur, acc) ==
  IF i > Len(s) THEN Append(acc, cur)
  ELSE IF IsSpace(s[i])
         THEN IF i > 1 /\ IsSpace(s[i - 1])
                THEN SplitFrom(s, i + 1, cur, acc)
                ELSE SplitFrom(s, i + 1, << >>, Append(acc, cur))
         ELSE SplitFrom(s, i + 1, Append(cur, s[i]), acc)

splitSpaces(s) == SplitFrom(s, 1, << >>, << >>)

----------------------------------------------------------------------------
(* Numbers                                                                 *)

\* one unit of a score: 0.01
Scale == 100

Min(a, b) == IF a <= b THEN a ELSE b
Max(a, b) == IF a >= b THEN a ELSE b

\* a / b rounded to the nearest integer (b > 0)
RoundDiv(a, b) == (2 * a + b) \div (2 * b)

\* floor of the square root
RECURSIVE FloorSqrt(_)
FloorSqrt(n) ==
  IF n < 2 THEN n
  ELSE LET s == 2 * FloorSqrt(n \div 4)
       IN  IF (s + 1) * (s + 1) > n THEN s ELSE s + 1

\* the square root rounded to the nearest integer
RoundSqrt(n) ==
  LET r == FloorSqrt(n) IN IF n - r * r > r THEN r + 1 ELSE r


----------------------------------------------------------------------------
(* Knowledge source: the file that load reads, and the JSON value in it    *)

\* a text written as its characters
T_ship      == << "s","h","i","p" >>
T_Ship      == << "S","h","i","p" >>
T_price     == << "p","r","i","c","e" >>
T_steps     == << "s","t","e","p","s" >>
T_call      == << "c","a","l","l" >>
T_first     == << "f","i","r","s","t" >>
T_we        == << "w","e" >>
T_process   == << "p","r","o","c","e","s","s" >>
T_payment_info    == << "p","a","y","m","e","n","t","_","i","n","f","o" >>
T_explain_process == << "e","x","p","l","a","i","n","_","p","r","o","c","e","s","s" >>
T_request_contact == << "r","e","q","u","e","s","t","_","c","o","n","t","a","c","t" >>
T_uncategorized   == << "u","n","c","a","t","e","g","o","r","i","z","e","d" >>
T_general         == << "g","e","n","e","r","a","l" >>

\* one blank
Sp == << " " >>

\* an absent (undefined) or empty string: both are falsy where the code tests them
NoText == << >>

\* a JSON value that stands where a string is expected and is not one (a number)
NonString == << "#number" >>

\* an embedding: a JSON array of numbers, absent, or a value that is no array
Vec(v)       == [tag |-> "array",  vec |-> v]
NoVec        == [tag |-> "absent", vec |-> << >>]
NonArrayVec  == [tag |-> "number", vec |-> << >>]

\* an element of the JSON array: an object with the fields the code reads
Item(emb, ans, cat, sub, kws, intent, prio) ==
  [ type |-> "object", embedding |-> emb, answer |-> ans, category |-> cat,
    sub_category |-> sub, keywords |-> kws, intent |-> intent, priority |-> prio,
    question |-> NoText, related_questions |-> << >> ]

\* an element that is null, and one that is a number
NullElem   == [ Item(NoVec, NoText, NoText, NoText, << >>, NoText, "") EXCEPT !.type = "null" ]
NumberElem == [ Item(NoVec, NoText, NoText, NoText, << >>, NoText, "") EXCEPT !.type = "number" ]

\* well-formed knowledge items
ItemShip  == Item(Vec(<< 3, 4 >>), T_we \o Sp \o T_ship, T_Ship, NoText,
                  << T_Ship, T_price >>, T_payment_info, "high")
ItemSteps == Item(Vec(<< 4, 3 >>), T_first \o Sp \o T_we \o Sp \o T_call, T_process, T_steps,
                  << T_steps >>, T_explain_process, "medium")
ItemFar   == Item(Vec(<< -3, 4 >>), T_we \o Sp \o T_call, NoText, NoText,
                  << T_call, T_ship, T_price, T_steps >>, T_request_contact, "low")
ItemDiag  == Item(Vec(<< 1, 1 >>), T_we, T_Ship, T_general, << >>, NoText, "")
ItemNoEmb == Item(NoVec, T_first \o Sp \o T_ship, T_Ship, NoText,
                  << T_ship >>, T_payment_info, "high")
ItemShort == Item(Vec(<< 5 >>), T_ship, NoText, NoText, << T_ship >>, NoText, "high")

\* objects that load cannot digest
ItemBadEmbedding == Item(NonArrayVec, T_we, T_Ship, NoText, << >>, NoText, "")
ItemBadKeyword   == Item(Vec(<< 3, 4 >>), T_we, T_Ship, NoText,
                         << T_ship, NonString >>, T_payment_info, "")

\* what a JSON array may hold: elements load accepts, and elements it throws on
GoodElems == { ItemShip, ItemSteps, ItemFar, ItemDiag, ItemNoEmb, ItemShort, NumberElem }
BadElems  == { NullElem, ItemBadEmbedding, ItemBadKeyword }


\* the outcome of reading the file and parsing it (fs.existsSync,
\* fs.readFileSync, JSON.parse): no file, a read error, a syntax error, or
\* the parsed value: an array of elements, or a value that is no array
MissingFile    == [kind |-> "missing",    elems |-> << >>]
UnreadableFile == [kind |-> "unreadable", elems |-> << >>]
MalformedFile  == [kind |-> "malformed",  elems |-> << >>]
NonArrayFile   == [kind |-> "nonarray",   elems |-> << >>]
ArrayFile(es)  == [kind |-> "array",      elems |-> es]

----------------------------------------------------------------------------
(* Vector math (KnowledgeBase.calculateMagnitude, dotProduct,              *)
(* cosineSimilarity)                                                       *)

RECURSIVE SumSquares(_)
SumSquares(v) == IF v = << >> THEN 0 ELSE Head(v) * Head(v) + SumSquares(Tail(v))

\* Math.sqrt(vector.reduce((sum, val) => sum + val * val, 0)), in hundredths
calculateMagnitude(vector) == RoundSqrt(SumSquares(vector) * Scale * Scale)

\* a.reduce((sum, val, i) => sum + val * b[i], 0), for equal lengths
RECURSIVE dotProduct(_, _)
dotProduct(a, b) ==
  IF a = << >> THEN 0 ELSE Head(a) * Head(b) + dotProduct(Tail(a), Tail(b))

\* the quotient dot / 1e-10 of a nonzero dot product: beyond every score
Huge == 1000000000

\* a similarity that answers 0, not -1, for an absent or mismatched vector
cosineSimilarityZero(queryVector, itemVector, itemMagnitude) ==
  IF \/ queryVector.tag # "array"
     \/ itemVector.tag # "array"
     \/ Len(queryVector.vec) # Len(itemVector.vec)
    THEN 0
    ELSE LET product == RoundDiv(calculateMagnitude(queryVector.vec) * itemMagnitude, Scale)
             dot     == dotProduct(queryVector.vec, itemVector.vec)
         IN  IF product = 0 THEN 0
             ELSE IF dot >= 0 THEN RoundDiv(dot * Scale * Scale, product)
                  ELSE -RoundDiv((-dot) * Scale * Scale, product)

\* KnowledgeBase.cosineSimilarity; -1 marks an absent or length-mismatched vector
cosineSimilarity(queryVector, itemVector, itemMagnitude) ==
  IF \/ queryVector.tag # "array"
     \/ itemVector.tag # "array"
     \/ Len(queryVector.vec) # Len(itemVector.vec)
    THEN -Scale
    ELSE LET queryMagnitude == calculateMagnitude(queryVector.vec)
             product        == RoundDiv(queryMagnitude * itemMagnitude, Scale)
             dot            == dotProduct(queryVector.vec, itemVector.vec)
         IN  IF product = 0
               THEN (IF dot = 0 THEN 0 ELSE IF dot > 0 THEN Huge ELSE -Huge)
               ELSE IF dot >= 0
                      THEN RoundDiv(dot * Scale * Scale, product)
                      ELSE -RoundDiv((-dot) * Scale * Scale, product)


----------------------------------------------------------------------------
(* Knowledge store (class KnowledgeBase): state and load                   *)

VARIABLES
  items,             \* this.items
  magnitudes,        \* this.magnitudes
  keywordIndex,      \* this.keywordIndex: normalised keyword -> item indexes
  intentIndex,       \* this.intentIndex
  categoryIndex,     \* this.categoryIndex
  subCategoryIndex,  \* this.subCategoryIndex
  isLoaded,          \* this.isLoaded
  lastLoad,          \* the last call of load: its source and how it ended
  lastFind           \* the last call of findTopMatches: arguments, scores, result

kbVars == << items, magnitudes, keywordIndex, intentIndex, categoryIndex,
             subCategoryIndex, isLoaded, lastLoad, lastFind >>

\* new Map()
EmptyMap == [ k \in {} |-> << >> ]

\* if (!map.has(key)) map.set(key, []); map.get(key).push(index)
MapPush(map, key, index) ==
  IF key \in DOMAIN map
    THEN [ map EXCEPT ![key] = Append(@, index) ]
    ELSE [ k \in DOMAIN map \cup {key} |-> IF k = key THEN << index >> ELSE map[k] ]

\* the store as one value
Store ==
  [ items |-> items, magnitudes |-> magnitudes, keywordIndex |-> keywordIndex,
    intentIndex |-> intentIndex, categoryIndex |-> categoryIndex,
    subCategoryIndex |-> subCategoryIndex, isLoaded |-> isLoaded ]

\* the constructor
NewStore ==
  [ items |-> << >>, magnitudes |-> << >>, keywordIndex |-> EmptyMap,
    intentIndex |-> EmptyMap, categoryIndex |-> EmptyMap,
    subCategoryIndex |-> EmptyMap, isLoaded |-> FALSE ]

\* metadata.keywords.forEach(...): the keywords of one item, in order; a keyword
\* that is no string makes keyword.toLowerCase() throw and ends the build
RECURSIVE IndexKeywords(_, _, _)
IndexKeywords(ix, kws, index) ==
  IF kws = << >> THEN ix
  ELSE IF Head(kws) = NonString THEN [ ix EXCEPT !.threw = TRUE ]
  ELSE IndexKeywords(
         [ ix EXCEPT !.keywordIndex = MapPush(@, trim(toLowerCase(Head(kws))), index) ],
         Tail(kws), index)

\* the body of this.items.forEach((item, index) => ...) for one item
IndexItem(ix, item, index) ==
  LET category    == IF item.category = NoText THEN T_uncategorized ELSE item.category
      subCategory == IF item.sub_category = NoText THEN T_general ELSE item.sub_category
      k == IndexKeywords(ix, item.keywords, index)
  IN  IF k.threw THEN k
      ELSE IF item.intent = NonString THEN [ k EXCEPT !.threw = TRUE ]
      ELSE LET i == IF item.intent = NoText THEN k
                    ELSE [ k EXCEPT !.intentIndex =
                                       MapPush(@, trim(toLowerCase(item.intent)), index) ]
           IN  [ i EXCEPT
                   !.categoryIndex    = MapPush(@, trim(toLowerCase(category)), index),
                   !.subCategoryIndex = MapPush(@, trim(toLowerCase(subCategory)), index) ]

RECURSIVE IndexItems(_, _, _)
IndexItems(ix, its, index) ==
  IF its = << >> \/ ix.threw THEN ix
  ELSE IndexItems(IndexItem(ix, Head(its), index), Tail(its), index + 1)

\* the four maps are cleared, then filled item by item (indexes count from 0);
\* threw: an exception left the maps as far as they had been built
buildMetadataIndexes(its) ==
  IndexItems([ keywordIndex |-> EmptyMap, intentIndex |-> EmptyMap,
               categoryIndex |-> EmptyMap, subCategoryIndex |-> EmptyMap,
               threw |-> FALSE ], its, 0)

\* a reset that forgets this.isLoaded = false
ResetStoreStillLoaded(st) == [ st EXCEPT !.items = << >>, !.magnitudes = << >> ]

\* this.items = []; this.magnitudes = []; this.isLoaded = false
ResetStore(st) ==
  [ st EXCEPT !.items = << >>, !.magnitudes = << >>, !.isLoaded = FALSE ]

\* the try block of load, from readFileSync on: the store as the block leaves
\* it, and whether it threw
TryLoad(st, src) ==
  IF src.kind \in {"unreadable", "malformed"}
    THEN [ st |-> st, threw |-> TRUE ]
  ELSE IF src.kind = "nonarray"
    \* this.items holds the parsed value, which has no map method
    THEN [ st |-> [ st EXCEPT !.items = << >> ], threw |-> TRUE ]
  ELSE
    LET parsed == [ st EXCEPT !.items = src.elems ]
    IN  IF \E i \in DOMAIN src.elems :
             \/ src.elems[i].type = "null"
             \/ src.elems[i].embedding.tag = "number"
          \* item.embedding of null, or calculateMagnitude of a value without reduce
          THEN [ st |-> parsed, threw |-> TRUE ]
          ELSE
            LET mags == [ i \in DOMAIN src.elems |->
                            IF src.elems[i].embedding.tag = "array"
                              THEN calculateMagnitude(src.elems[i].embedding.vec)
                              ELSE 0 ]
                ix   == buildMetadataIndexes(src.elems)
                withIx == [ parsed EXCEPT !.magnitudes = mags,
                                          !.keywordIndex = ix.keywordIndex,
                                          !.intentIndex = ix.intentIndex,
                                          !.categoryIndex = ix.categoryIndex,
                                          !.subCategoryIndex = ix.subCategoryIndex ]
            IN  IF ix.threw
                  THEN [ st |-> withIx, threw |-> TRUE ]
                  ELSE [ st |-> [ withIx EXCEPT !.isLoaded = TRUE ], threw |-> FALSE ]

\* a load whose catch block logs and rethrows
CatchLoadRethrow(r) == [ store |-> r.st, outcome |-> "raised" ]

\* the catch block of load: the exception is logged and not thrown again
CatchLoad(r) == [ store |-> ResetStore(r.st), outcome |-> "returned" ]

\* KnowledgeBase.load: the store after the call, and how the call ended
load(st, src) ==
  IF src.kind = "missing"
    THEN [ store |-> ResetStore(st), outcome |-> "returned" ]
    ELSE LET r == TryLoad(st, src)
         IN  IF r.threw THEN CatchLoad(r)
             ELSE [ store |-> r.st, outcome |-> "returned" ]

----------------------------------------------------------------------------
(* Configuration (CONFIG)                                                  *)

\* an environment variable that is not set
Unset == -1

\* Math.max(0.1, Math.min(1.0, parseFloat(env) || 0.4)), in hundredths
SimilarityThreshold(env) ==
  Max(10, Min(Scale, IF env = Unset \/ env = 0 THEN 40 ELSE env))

\* Math.max(1, Math.min(20, parseInt(env) || 8))
MaxContextItems(env) ==
  Max(1, Min(20, IF env = Unset \/ env = 0 THEN 8 ELSE env))

KEYWORD_BOOST    == 10
INTENT_BOOST     == 15
CATEGORY_BOOST   == 8
PROCEDURAL_BOOST == 20

\* the cap of the keyword boost: Math.min(0.3, ...)
KeywordBoostCap == 30

\* priorityWeights = { high: 0.1, medium: 0.05, low: 0.02 }
PriorityBoost(priority) ==
  CASE priority = "high"   -> 10
    [] priority = "medium" -> 5
    [] priority = "low"    -> 2
    [] OTHER               -> 0

VARIABLE config      \* CONFIG.SIMILARITY_THRESHOLD, CONFIG.MAX_CONTEXT_ITEMS

----------------------------------------------------------------------------
(* Query analyzer (extractQueryWords, detectIntent, isProceduralQuery,     *)
(* isProceduralContent)                                                    *)

\* query.toLowerCase().replace(/[^\w\s]/g, ' ').split(/\s+/)
\*      .filter(word => word.length > 2)
extractQueryWords(query) ==
  LET lower    == toLowerCase(query)
      replaced == [ i \in 1..Len(lower) |->
                      IF IsWordChar(lower[i]) \/ IsSpace(lower[i]) THEN lower[i] ELSE " " ]
  IN  SelectSeq(splitSpaces(replaced), LAMBDA word : Len(word) > 2)

\* const intentPatterns, with the label intentMapping gives each, in the order
\* Object.entries lists them
IntentRules ==
  <<
     [ intent |-> << "e","x","p","l","a","i","n","_","p","r","o","c","e","s","s" >>,
       alts |-> { << "h","o","w"," ","t","o" >>,
           << "s","t","e","p","s" >>,
           << "p","r","o","c","e","s","s" >>,
           << "p","r","o","c","e","d","u","r","e" >>,
           << "g","u","i","d","e" >>,
           << "i","n","s","t","r","u","c","t","i","o","n","s" >>,
           << "s","e","t"," ","u","p" >>,
           << "a","r","r","a","n","g","e" >>,
           << "o","r","g","a","n","i","z","e" >> } ],
     [ intent |-> << "p","a","y","m","e","n","t","_","i","n","f","o" >>,
       alts |-> { << "b","i","l","l" >>,
           << "b","i","l","l","i","n","g" >>,
           << "i","n","v","o","i","c","e" >>,
           << "c","o","s","t" >>,
           << "p","r","i","c","e" >>,
           << "f","e","e" >>,
           << "c","h","a","r","g","e" >>,
           << "p","a","y","m","e","n","t" >> } ],
     [ intent |-> << "r","e","q","u","e","s","t","_","c","o","n","t","a","c","t" >>,
       alts |-> { << "c","o","n","t","a","c","t" >>,
           << "p","h","o","n","e" >>,
           << "e","m","a","i","l" >>,
           << "s","p","e","a","k" >>,
           << "c","a","l","l" >>,
           << "r","e","a","c","h" >>,
           << "t","o","u","c","h" >> } ],
     [ intent |-> << "s","e","r","v","i","c","e","_","i","n","q","u","i","r","y" >>,
       alts |-> { << "s","e","r","v","i","c","e" >>,
           << "w","h","a","t" >>,
           << "h","o","w" >>,
           << "d","o"," ","y","o","u" >>,
           << "c","a","n"," ","y","o","u" >>,
           << "o","f","f","e","r" >> } ],
     [ intent |-> << "l","o","c","a","t","i","o","n","_","i","n","f","o" >>,
       alts |-> { << "w","h","e","r","e" >>,
           << "l","o","c","a","t","i","o","n" >>,
           << "a","d","d","r","e","s","s" >>,
           << "b","a","s","e","d" >>,
           << "o","f","f","i","c","e" >> } ],
     [ intent |-> << "o","p","e","r","a","t","i","n","g","_","h","o","u","r","s" >>,
       alts |-> { << "h","o","u","r","s" >>,
           << "o","p","e","n" >>,
           << "c","l","o","s","e","d" >>,
           << "t","i","m","e" >>,
           << "w","h","e","n" >> } ],
     [ intent |-> << "s","h","i","p","p","i","n","g","_","i","n","q","u","i","r","y" >>,
       alts |-> { << "s","h","i","p" >>,
           << "s","h","i","p","p","i","n","g" >>,
           << "f","r","e","i","g","h","t" >>,
           << "d","e","l","i","v","e","r","y" >>,
           << "t","r","a","n","s","p","o","r","t" >> } ],
     [ intent |-> << "s","t","o","r","a","g","e","_","i","n","q","u","i","r","y" >>,
       alts |-> { << "s","t","o","r","a","g","e" >>,
           << "w","a","r","e","h","o","u","s","e" >>,
           << "s","t","o","r","e" >>,
           << "k","e","e","p" >> } ],
     [ intent |-> << "c","u","s","t","o","m","s","_","i","n","q","u","i","r","y" >>,
       alts |-> { << "c","u","s","t","o","m","s" >>,
           << "c","l","e","a","r","a","n","c","e" >>,
           << "i","m","p","o","r","t" >>,
           << "e","x","p","o","r","t" >>,
           << "b","r","o","k","e","r","a","g","e" >> } ]
  >>

\* an analyzer in which the last matching rule wins
detectIntentLast(query) ==
  LET lowerQuery == toLowerCase(query)
      hits == { r \in DOMAIN IntentRules : TestWords(lowerQuery, IntentRules[r].alts) }
  IN  IF hits = {} THEN NoText
      ELSE IntentRules[CHOOSE r \in hits : \A q \in hits : r >= q].intent

\* the first rule whose pattern matches; null (NoText) when none does
detectIntent(query) ==
  LET lowerQuery == toLowerCase(query)
      hits == { r \in DOMAIN IntentRules : TestWords(lowerQuery, IntentRules[r].alts) }
  IN  IF hits = {} THEN NoText
      ELSE IntentRules[CHOOSE r \in hits : \A q \in hits : r <= q].intent

ProceduralQueryWords ==
  { << "h","o","w"," ","t","o" >>,
      << "s","t","e","p","s" >>,
      << "p","r","o","c","e","s","s" >>,
      << "p","r","o","c","e","d","u","r","e" >>,
      << "g","u","i","d","e" >>,
      << "i","n","s","t","r","u","c","t","i","o","n","s" >>,
      << "s","e","t"," ","u","p" >>,
      << "a","r","r","a","n","g","e" >>,
      << "o","r","g","a","n","i","z","e" >> }

isProceduralQuery(query) == TestWords(toLowerCase(query), ProceduralQueryWords)

ProceduralContentWords ==
  { << "s","t","e","p" >>,
      << "f","i","r","s","t" >>,
      << "n","e","x","t" >>,
      << "t","h","e","n" >>,
      << "f","i","n","a","l","l","y" >>,
      << "p","r","o","c","e","s","s" >>,
      << "p","r","o","c","e","d","u","r","e" >>,
      << "g","u","i","d","e" >>,
      << "i","n","s","t","r","u","c","t","i","o","n","s" >> }

\* item.A || item.answer || '' tested for the procedural markers
isProceduralContent(item) == TestWords(item.answer, ProceduralContentWords)

----------------------------------------------------------------------------
(* Scorer and ranker (calculateBoosts, findTopMatches)                     *)

T_procedure == << "p","r","o","c","e","d","u","r","e" >>

NoBoosts ==
  [ keyword |-> 0, intent |-> 0, category |-> 0, procedural |-> 0,
    priority |-> 0, total |-> 0 ]

\* a total with a cap of its own
SumBoostsCapped(b) ==
  Min(KeywordBoostCap, b.keyword + b.intent + b.category + b.procedural + b.priority)

\* boosts.total
SumBoosts(b) == b.keyword + b.intent + b.category + b.procedural + b.priority

calculateBoosts(item, queryWords, detectedIntent, isProcedural) ==
  LET category    == toLowerCase(item.category)
      subCategory == toLowerCase(item.sub_category)
      matchingKeywords ==
        SelectSeq(item.keywords, LAMBDA keyword :
          \E w \in DOMAIN queryWords :
             \/ includes(queryWords[w], toLowerCase(keyword))
             \/ includes(toLowerCase(keyword), queryWords[w]))
      b == [ keyword    |-> Min(KeywordBoostCap, Len(matchingKeywords) * KEYWORD_BOOST),
             intent     |-> IF detectedIntent # NoText /\ item.intent = detectedIntent
                              THEN INTENT_BOOST ELSE 0,
             category   |-> IF isProcedural /\ ( \/ includes(category, T_process)
                                                 \/ includes(category, T_procedure)
                                                 \/ includes(subCategory, T_process)
                                                 \/ includes(subCategory, T_procedure) )
                              THEN CATEGORY_BOOST ELSE 0,
             procedural |-> IF isProcedural /\ isProceduralContent(item)
                              THEN PROCEDURAL_BOOST ELSE 0,
             priority   |-> PriorityBoost(item.priority),
             total      |-> 0 ]
  IN  [ b EXCEPT !.total = SumBoosts(b) ]

\* Math.min(1.0, boostedScore)
ClampScore(boostedScore) == Min(Scale, boostedScore)

\* a scorer that boosts whatever the base score is
ScoreItemAlwaysBoosted(st, queryEmbedding, queryWords, detectedIntent, isProcedural, index) ==
  LET item      == st.items[index + 1]
      baseScore == IF item.embedding.tag = "array"
                     THEN cosineSimilarity(queryEmbedding, item.embedding,
                                           st.magnitudes[index + 1])
                     ELSE -Scale
      boosts    == calculateBoosts(item, queryWords, detectedIntent, isProcedural)
  IN  [ index |-> index, score |-> ClampScore(baseScore + boosts.total),
        hasBase |-> TRUE, baseScore |-> baseScore, boosts |-> boosts ]

\* one element of scores: the item (by its index), its score, and baseScore and
\* boosts, which the code leaves out (hasBase = FALSE) when baseScore <= 0
ScoreItem(st, queryEmbedding, queryWords, detectedIntent, isProcedural, index) ==
  LET item      == st.items[index + 1]
      baseScore == IF item.embedding.tag = "array"
                     THEN cosineSimilarity(queryEmbedding, item.embedding,
                                           st.magnitudes[index + 1])
                     ELSE -Scale
  IN  IF baseScore <= 0
        THEN [ index |-> index, score |-> baseScore, hasBase |-> FALSE,
               baseScore |-> baseScore, boosts |-> NoBoosts ]
        ELSE LET boosts == calculateBoosts(item, queryWords, detectedIntent, isProcedural)
             IN  [ index |-> index, score |-> ClampScore(baseScore + boosts.total),
                   hasBase |-> TRUE, baseScore |-> baseScore, boosts |-> boosts ]

\* the comparator of the sort: a is placed before b when b.score - a.score < 0
ScoreBefore(a, b) == b.score - a.score < 0

\* Array.prototype.sort with that comparator: stable, so equal scores keep
\* their order; here by insertion from the end
RECURSIVE InsertByScore(_, _)
InsertByScore(m, sorted) ==
  IF sorted = << >> THEN << m >>
  ELSE IF ScoreBefore(Head(sorted), m)
         THEN << Head(sorted) >> \o InsertByScore(m, Tail(sorted))
         ELSE << m >> \o sorted

RECURSIVE SortByScore(_)
SortByScore(ms) ==
  IF ms = << >> THEN << >> ELSE InsertByScore(Head(ms), SortByScore(Tail(ms)))

\* a slice that keeps one element too many
SliceOneMore(s, k) == SubSeq(s, 1, Min(k + 1, Len(s)))

\* Array.prototype.slice(0, k), k >= 0
Slice(s, k) == SubSeq(s, 1, Min(k, Len(s)))

\* match.score > CONFIG.SIMILARITY_THRESHOLD
PassesThreshold(match, threshold) == match.score > threshold

\* scores, as findTopMatches computes them before it sorts
Scores(st, queryEmbedding, query) ==
  LET queryWords     == extractQueryWords(query)
      detectedIntent == detectIntent(query)
      isProcedural   == isProceduralQuery(query)
  IN  [ i \in 1..Len(st.items) |->
          ScoreItem(st, queryEmbedding, queryWords, detectedIntent, isProcedural, i - 1) ]

\* scores.sort(...).slice(0, k).filter(...)
RankMatches(scores, k, threshold) ==
  SelectSeq(Slice(SortByScore(scores), k), LAMBDA m : PassesThreshold(m, threshold))

findTopMatches(st, cfg, queryEmbedding, query, k) ==
  IF ~st.isLoaded THEN << >>
  ELSE RankMatches(Scores(st, queryEmbedding, query), k, cfg.SIMILARITY_THRESHOLD)

----------------------------------------------------------------------------
(* Response cache (class QueryCache)                                       *)

\* CONFIG.CACHE_TTL = 5 * 60 * 1000 ms, and the period 10 * 60 * 1000 ms of the
\* cleanup timer; the clock counts minutes
CACHE_TTL == 5
CLEANUP_INTERVAL == 10

VARIABLES
  cache,       \* this.cache: key -> { timestamp, data }
  now,         \* Date.now()
  nextSweep,   \* when the timer of setInterval fires next
  written,     \* per key, the timestamp and data of the most recent set
  lastGet      \* the last call of get: its key, its time and what it returned

cacheVars == << cache, now, nextSweep, written, lastGet >>

\* the response object that processQuery builds (the fields read here), and
\* the value null
Response(answer, matches, contextUsed, intent, greeting, procedural, followup) ==
  [ answer |-> answer, matches |-> matches, context_used |-> contextUsed,
    detected_intent |-> intent, is_greeting |-> greeting,
    is_procedural |-> procedural, is_contact_followup |-> followup ]

Null == Response(NoText, << >>, FALSE, NoText, FALSE, FALSE, FALSE)

\* an expiry test that is off by one: >= for >
ExpiredAtTtl(entry, t) == t - entry.timestamp >= CACHE_TTL

\* Date.now() - entry.timestamp > this.ttl
Expired(entry, t) == t - entry.timestamp > CACHE_TTL

\* this.cache.delete(key)
MapDelete(map, key) == [ k \in DOMAIN map \ {key} |-> map[k] ]

\* this.cache.set(key, value)
MapSet(map, key, value) ==
  [ k \in DOMAIN map \cup {key} |-> IF k = key THEN value ELSE map[k] ]

\* QueryCache.get: the cache after the call and the value returned
CacheGet(c, key, t) ==
  IF key \notin DOMAIN c THEN [ cache |-> c, hit |-> FALSE, data |-> Null ]
  ELSE IF Expired(c[key], t)
         THEN [ cache |-> MapDelete(c, key), hit |-> FALSE, data |-> Null ]
         ELSE [ cache |-> c, hit |-> TRUE, data |-> c[key].data ]

\* a set that keeps an entry that is already there
CacheSetIfAbsent(c, key, data, t) ==
  IF key \in DOMAIN c THEN c ELSE MapSet(c, key, [ timestamp |-> t, data |-> data ])

\* QueryCache.set
CacheSet(c, key, data, t) == MapSet(c, key, [ timestamp |-> t, data |-> data ])

\* a sweep that also removes the entries whose age is exactly the TTL
CacheCleanupAtTtl(c, t) == [ k \in { x \in DOMAIN c : ~ExpiredAtTtl(c[x], t) } |-> c[k] ]

\* QueryCache.cleanup
CacheCleanup(c, t) == [ k \in { x \in DOMAIN c : ~Expired(c[x], t) } |-> c[k] ]

\* the clock is followed up to MaxNow
MaxNow == 10

CacheKeys == { T_ship, T_call }
Payloads ==
  { Response(T_we, << >>, TRUE, NoText, FALSE, FALSE, FALSE),
    Response(T_ship, << >>, TRUE, NoText, FALSE, FALSE, FALSE) }

NoGet == [ called |-> FALSE, key |-> NoText, at |-> 0, hit |-> FALSE, data |-> Null ]

\* new QueryCache(): an empty map, and the timer set
InitCache ==
  /\ cache = EmptyMap
  /\ now = 0
  /\ nextSweep = CLEANUP_INTERVAL
  /\ written = EmptyMap
  /\ lastGet = NoGet

----------------------------------------------------------------------------
(* Regular expressions (the patterns of PatternMatcher, ResponseGenerator  *)
(* and ChatBot): a pattern is run on a text as the set of positions at     *)
(* which a match of the part read so far may end                           *)

T_how == << "h","o","w" >>

\* every position of s, and the one after its last character
Positions(s) == 1..(Len(s) + 1)

\* the literal w read from a position of I
Lit(s, I, w) ==
  { i + Len(w) : i \in { j \in I : j + Len(w) - 1 <= Len(s)
                                     /\ SubSeq(s, j, j + Len(w) - 1) = w } }

\* one of the literals of alts: (a1|a2|...)
LitAny(s, I, alts) == UNION { Lit(s, I, a) : a \in alts }

\* \s
Ws(s, I) == { i + 1 : i \in { j \in I : j <= Len(s) /\ IsSpace(s[j]) } }

\* \s+
WsPlus(s, I) ==
  { j \in Positions(s) : \E i \in I : i < j /\ \A k \in i..(j - 1) : IsSpace(s[k]) }

\* .*  (the dot matches no line terminator)
DotStar(s, I) ==
  { j \in Positions(s) : \E i \in I : i <= j /\ \A k \in i..(j - 1) : s[k] # "\n" }

\* \b
IsBoundary(s, i) ==
  LET before == i > 1 /\ IsWordChar(s[i - 1])
      after  == i <= Len(s) /\ IsWordChar(s[i])
  IN  before # after

Boundary(s, I) == { i \in I : IsBoundary(s, i) }

\* $
AtEnd(s, I) == (Len(s) + 1) \in I

\* ^
AtStart == {1}

----------------------------------------------------------------------------
(* PatternMatcher                                                          *)

GreetingWords ==
  { << "h","i" >>, << "h","e","l","l","o" >>, << "h","e","y" >>,
    << "h","o","w","d","y" >>, << "g","r","e","e","t","i","n","g","s" >>,
    << "y","o" >>, << "s","u","p" >>,
    << "w","h","a","t","'","s"," ","u","p" >>,
    << "h","i"," ","t","h","e","r","e" >>,
    << "h","e","l","l","o"," ","t","h","e","r","e" >> }
DayTimes ==
  { << "m","o","r","n","i","n","g" >>,
    << "a","f","t","e","r","n","o","o","n" >>,
    << "e","v","e","n","i","n","g" >> }
GreetingNames ==
  { << "h","i" >>, << "h","e","l","l","o" >>, << "h","e","y" >> }
GreetingAddressees ==
  { << "t","h","e","r","e" >>, << "c","h","a","t","b","o","t" >>,
    << "b","o","t" >>, << "a","s","s","i","s","t","a","n","t" >> }
ThanksTails ==
  { << "y","o","u" >>, << "a"," ","l","o","t" >>,
    << "s","o"," ","m","u","c","h" >> }
ThankYou ==
  { << "y","o","u" >>, << "u" >> }
ByeWords ==
  { << "g","o","o","d","b","y","e" >>, << "b","y","e" >>,
    << "s","e","e"," ","y","a" >>, << "s","e","e"," ","y","o","u" >>,
    << "f","a","r","e","w","e","l","l" >> }
T_good == << "g","o","o","d" >>
T_thank == << "t","h","a","n","k" >>
T_going == << "g","o","i","n","g" >>
T_doing == << "d","o","i","n","g" >>
T_are == << "a","r","e" >>
T_you == << "y","o","u" >>
T_up == << "u","p" >>
T_whats == << "w","h","a","t","'","s" >>
T_howsit == << "h","o","w","'","s","i","t" >>
T_qm == << "?" >>

\* p, or p followed by the literal w: p(w)?
Opt(s, I, lit) == I \cup Lit(s, I, lit)

\* GREETING_PATTERNS, in their order, on the trimmed lower-cased message
GREETING_PATTERNS(t) ==
  << Boundary(t, LitAny(t, AtStart, GreetingWords)
                   \cup LitAny(t, Ws(t, Lit(t, AtStart, T_good)), DayTimes)) # {},
     Boundary(t, LitAny(t, WsPlus(t, LitAny(t, Boundary(t, AtStart), GreetingNames)),
                        GreetingAddressees)) # {},
     LET thanks == Opt(t, Lit(t, AtStart, T_thank), << "s" >>)
     IN  AtEnd(t, thanks \cup LitAny(t, WsPlus(t, thanks), ThanksTails)),
     Boundary(t, LitAny(t, WsPlus(t, Lit(t, AtStart, T_thank)), ThankYou)) # {},
     Boundary(t, LitAny(t, AtStart, ByeWords \cup { << "c","h","e","e","r","s" >> })) # {},
     LET you == Lit(t, WsPlus(t, Lit(t, WsPlus(t, Lit(t, AtStart, T_how)), T_are)), T_you)
     IN  AtEnd(t, Opt(t, you \cup Lit(t, WsPlus(t, you), T_doing), T_qm)),
     AtEnd(t, Opt(t, Lit(t, WsPlus(t, Lit(t, AtStart, T_whats)), T_up), T_qm)),
     AtEnd(t, Opt(t, Lit(t, WsPlus(t, Lit(t, AtStart, T_howsit)), T_going), T_qm)) >>

\* PatternMatcher.isGreeting
isGreeting(message) ==
  LET trimmed  == toLowerCase(trim(message))
      patterns == GREETING_PATTERNS(trimmed)
  IN  \E i \in DOMAIN patterns : patterns[i]

ProceduralWords ==
  { << "h","o","w"," ","t","o" >>, << "s","t","e","p" >>,
    << "s","t","e","p","s" >>, << "p","r","o","c","e","s","s" >>,
    << "p","r","o","c","e","d","u","r","e" >>, << "g","u","i","d","e" >>,
    << "i","n","s","t","r","u","c","t","i","o","n" >>,
    << "i","n","s","t","r","u","c","t","i","o","n","s" >>,
    << "s","e","t"," ","u","p" >>, << "a","r","r","a","n","g","e" >>,
    << "o","r","g","a","n","i","z","e" >>,
    << "g","e","t"," ","s","t","a","r","t","e","d" >> }
ProceduralPhrases ==
  { 
    << "w","h","a","t"," ","a","r","e"," ","t","h","e"," ","s","t","e","p","s" >>,
    << "w","h","a","t"," ","i","s"," ","t","h","e"," ","p","r","o","c","e","s","s" >>,
    << "h","o","w"," ","d","o"," ","i" >> }
SequenceWords ==
  { << "f","i","r","s","t" >>, << "n","e","x","t" >>,
    << "t","h","e","n" >>, << "f","i","n","a","l","l","y" >>,
    << "a","f","t","e","r"," ","t","h","a","t" >> }

\* /\b(a1|a2|...)\b/ found somewhere in s
FindWords(s, alts) == Boundary(s, LitAny(s, Boundary(s, Positions(s)), alts))

\* PROCEDURAL_PATTERNS, in their order (flag i: on the lower-cased message)
PROCEDURAL_PATTERNS(s) ==
  << FindWords(s, ProceduralWords) # {},
     FindWords(s, ProceduralPhrases) # {},
     Lit(s, DotStar(s, FindWords(s, SequenceWords)), T_qm) # {} >>

\* PatternMatcher.isProcedural
isProcedural(message) ==
  LET patterns == PROCEDURAL_PATTERNS(toLowerCase(message))
  IN  \E i \in DOMAIN patterns : patterns[i]

ContactWords ==
  { << "c","o","n","t","a","c","t" >>, << "p","h","o","n","e" >>,
    << "e","m","a","i","l" >>, << "c","a","l","l" >>,
    << "r","e","a","c","h" >>, << "s","p","e","a","k" >>,
    << "t","a","l","k" >> }
T_reach == << "r","e","a","c","h" >>
T_contact == << "c","o","n","t","a","c","t" >>
T_team == << "t","e","a","m" >>
T_get_in_touch == << "g","e","t"," ","i","n"," ","t","o","u","c","h" >>

\* PatternMatcher.isContactQuery
isContactQuery(message) ==
  LET s   == toLowerCase(message)
      how == Lit(s, Boundary(s, Positions(s)), T_how)
  IN  \/ FindWords(s, ContactWords) # {}
      \/ Boundary(s, Lit(s, DotStar(s, how), T_reach)
                       \cup Lit(s, DotStar(s, how), T_contact)
                       \cup Lit(s, Boundary(s, Positions(s)), T_get_in_touch)) # {}

ContactSuggestions ==
  { << "r","e","a","c","h"," ","o","u","t" >>,
    << "g","e","t"," ","i","n"," ","t","o","u","c","h" >>,
    << "c","a","l","l"," ","u","s" >>,
    << "e","m","a","i","l"," ","u","s" >> }

\* PatternMatcher.isContactFollowup; an exchange of the history is
\* [user, bot]
isContactFollowup(message, history) ==
  IF Len(history) = 0 THEN FALSE
  ELSE LET lastBotMessage == toLowerCase(history[Len(history)].bot)
       IN  /\ \/ Lit(lastBotMessage,
                     DotStar(lastBotMessage,
                             Lit(lastBotMessage, Positions(lastBotMessage), T_contact)),
                     T_team) # {}
              \/ LitAny(lastBotMessage, Positions(lastBotMessage), ContactSuggestions) # {}
           /\ isContactQuery(message)

----------------------------------------------------------------------------
(* ResponseGenerator                                                       *)

GreetingMorningTail ==
  << "!"," ","H","o","w"," ","c","a","n"," ","I"," ","h","e","l","p"," ","y",
     "o","u"," ","w","i","t","h"," ","J","e","a","v","o","n","s"," ","E","u",
     "r","o","t","i","r"," ","s","e","r","v","i","c","e","s"," ","t","o","d",
     "a","y","?" >>
GreetingThanks ==
  << "Y","o","u","'","r","e"," ","w","e","l","c","o","m","e","!"," ","I","s",
     " ","t","h","e","r","e"," ","a","n","y","t","h","i","n","g"," ","e","l",
     "s","e"," ","I"," ","c","a","n"," ","h","e","l","p"," ","y","o","u"," ",
     "w","i","t","h","?" >>
GreetingGoodbye ==
  << "G","o","o","d","b","y","e","!"," ","F","e","e","l"," ","f","r","e","e",
     " ","t","o"," ","r","e","a","c","h"," ","o","u","t"," ","i","f"," ","y",
     "o","u"," ","h","a","v","e"," ","a","n","y"," ","m","o","r","e"," ","q",
     "u","e","s","t","i","o","n","s"," ","a","b","o","u","t"," ","o","u","r",
     " ","s","e","r","v","i","c","e","s","." >>
GreetingHowAreYou ==
  << "I","'","m"," ","d","o","i","n","g"," ","w","e","l","l",","," ","t","h",
     "a","n","k"," ","y","o","u","!"," ","I","'","m"," ","h","e","r","e"," ",
     "t","o"," ","h","e","l","p"," ","y","o","u"," ","w","i","t","h"," ","a",
     "n","y"," ","q","u","e","s","t","i","o","n","s"," ","a","b","o","u","t",
     " ","J","e","a","v","o","n","s"," ","E","u","r","o","t","i","r","'","s",
     " ","s","e","r","v","i","c","e","s","."," ","H","o","w"," ","c","a","n",
     " ","I"," ","a","s","s","i","s","t"," ","y","o","u"," ","t","o","d","a",
     "y","?" >>
GreetingDefaults ==
  << << "H","e","l","l","o","!"," ","H","o","w"," ","c","a","n"," ","I"," ","a",
        "s","s","i","s","t"," ","y","o","u"," ","w","i","t","h"," ","J","e","a",
        "v","o","n","s"," ","E","u","r","o","t","i","r"," ","s","e","r","v","i",
        "c","e","s"," ","t","o","d","a","y","?" >>,
     << "H","i"," ","t","h","e","r","e","!"," ","W","h","a","t"," ","c","a","n",
        " ","I"," ","h","e","l","p"," ","y","o","u"," ","w","i","t","h"," ","r",
        "e","g","a","r","d","i","n","g"," ","o","u","r"," ","l","o","g","i","s",
        "t","i","c","s"," ","s","e","r","v","i","c","e","s","?" >>,
     << "H","e","l","l","o","!"," ","I","'","m"," ","h","e","r","e"," ","t","o",
        " ","h","e","l","p"," ","w","i","t","h"," ","q","u","e","s","t","i","o",
        "n","s"," ","a","b","o","u","t"," ","w","a","r","e","h","o","u","s","i",
        "n","g",","," ","s","h","i","p","p","i","n","g",","," ","c","u","s","t",
        "o","m","s",","," ","a","n","d"," ","f","r","e","i","g","h","t"," ","s",
        "e","r","v","i","c","e","s","."," ","W","h","a","t"," ","d","o"," ","y",
        "o","u"," ","n","e","e","d"," ","a","s","s","i","s","t","a","n","c","e",
        " ","w","i","t","h","?" >>,
     << "H","i","!"," ","H","o","w"," ","c","a","n"," ","I"," ","h","e","l","p",
        " ","y","o","u"," ","w","i","t","h"," ","J","e","a","v","o","n","s"," ",
        "E","u","r","o","t","i","r"," ","t","o","d","a","y","?" >> >>

T_things == << "t","h","i","n","g","s" >>
T_is == << "i","s" >>
T_it == << "i","t" >>

\* ResponseGenerator.generateGreeting; random is the index drawn by
\* Math.floor(Math.random() * defaults.length), from 0
generateGreeting(message, random) ==
  LET lower     == trim(toLowerCase(message))
      timeStart == { i \in Positions(lower) :
                       LitAny(lower, Ws(lower, Lit(lower, {i}, T_good)), DayTimes) # {} }
      thank     == Lit(lower, AtStart, T_thank)
      how       == WsPlus(lower, Lit(lower, Positions(lower), T_how))
      are       == WsPlus(lower, Lit(lower, how, T_are))
  IN  IF timeStart # {}
        THEN LET i == CHOOSE x \in timeStart : \A y \in timeStart : x <= y
                 e == CHOOSE x \in LitAny(lower, Ws(lower, Lit(lower, {i}, T_good)),
                                          DayTimes) : TRUE
             IN  SubSeq(lower, i, e - 1) \o GreetingMorningTail
      ELSE IF Opt(lower, thank, << "s" >>)
                \cup LitAny(lower, WsPlus(lower, thank), ThankYou) # {}
        THEN GreetingThanks
      ELSE IF LitAny(lower, AtStart, ByeWords) # {}
        THEN GreetingGoodbye
      ELSE IF Lit(lower, are, T_you) \cup Lit(lower, are, T_things)
                \cup Lit(lower, WsPlus(lower, Lit(lower, WsPlus(lower, Lit(lower, how, T_is)),
                                                   T_it)), T_going) # {}
        THEN GreetingHowAreYou
      ELSE GreetingDefaults[random + 1]

----------------------------------------------------------------------------
(* ChatBot: the texts and the helpers of processQuery                      *)

MAX_HISTORY_LENGTH == 5

closingPhrases ==
  << << "L","e","t"," ","m","e"," ","k","n","o","w"," ","i","f"," ","y","o","u",
        " ","n","e","e","d"," ","a","s","s","i","s","t","a","n","c","e"," ","w",
        "i","t","h"," ","a","n","y","t","h","i","n","g"," ","e","l","s","e","." >>,
     << "F","e","e","l"," ","f","r","e","e"," ","t","o"," ","a","s","k"," ","i",
        "f"," ","y","o","u"," ","h","a","v","e"," ","m","o","r","e"," ","q","u",
        "e","s","t","i","o","n","s","." >>,
     << "L","e","t"," ","m","e"," ","k","n","o","w"," ","h","o","w"," ","e","l",
        "s","e"," ","I"," ","c","a","n"," ","a","s","s","i","s","t"," ","y","o",
        "u","." >>,
     << "I","'","m"," ","h","e","r","e"," ","t","o"," ","h","e","l","p"," ","w",
        "i","t","h"," ","a","n","y"," ","o","t","h","e","r"," ","q","u","e","s",
        "t","i","o","n","s"," ","y","o","u"," ","m","i","g","h","t"," ","h","a",
        "v","e","." >>,
     << "P","l","e","a","s","e"," ","a","s","k"," ","i","f"," ","y","o","u"," ",
        "n","e","e","d"," ","a","n","y","t","h","i","n","g"," ","e","l","s","e",
        "." >> >>

NoContextFallback ==
  << "I"," ","a","p","o","l","o","g","i","z","e",","," ","b","u","t"," ","I",
     " ","c","o","u","l","d","n","'","t"," ","g","e","n","e","r","a","t","e",
     " ","a"," ","r","e","s","p","o","n","s","e"," ","a","t"," ","t","h","i",
     "s"," ","t","i","m","e","."," ","P","l","e","a","s","e"," ","c","o","n",
     "t","a","c","t"," ","u","s"," ","a","t"," ","+","4","4"," ","(","0",")",
     "1","2","1"," ","7","6","5"," ","4","1","6","6"," ","f","o","r"," ","a",
     "s","s","i","s","t","a","n","c","e","." >>
AnswerFallback ==
  << "I"," ","a","p","o","l","o","g","i","z","e",","," ","b","u","t"," ","I",
     " ","c","o","u","l","d","n","'","t"," ","g","e","n","e","r","a","t","e",
     " ","a"," ","r","e","s","p","o","n","s","e"," ","a","t"," ","t","h","i",
     "s"," ","t","i","m","e","." >>
ErrorGeneric ==
  << "I","'","m"," ","e","x","p","e","r","i","e","n","c","i","n","g"," ","t",
     "e","c","h","n","i","c","a","l"," ","d","i","f","f","i","c","u","l","t",
     "i","e","s","."," ","P","l","e","a","s","e"," ","t","r","y"," ","a","g",
     "a","i","n"," ","l","a","t","e","r","." >>
ErrorQuota ==
  << "I","'","m"," ","t","e","m","p","o","r","a","r","i","l","y"," ","u","n",
     "a","v","a","i","l","a","b","l","e"," ","d","u","e"," ","t","o"," ","s",
     "e","r","v","i","c","e"," ","l","i","m","i","t","s","."," ","P","l","e",
     "a","s","e"," ","c","o","n","t","a","c","t"," ","u","s"," ","d","i","r",
     "e","c","t","l","y"," ","a","t"," ","+","4","4"," ","(","0",")","1","2",
     "1"," ","7","6","5"," ","4","1","6","6","." >>
ErrorRate ==
  << "I","'","m"," ","r","e","c","e","i","v","i","n","g"," ","t","o","o"," ",
     "m","a","n","y"," ","r","e","q","u","e","s","t","s"," ","r","i","g","h",
     "t"," ","n","o","w","."," ","P","l","e","a","s","e"," ","t","r","y"," ",
     "a","g","a","i","n"," ","i","n"," ","a"," ","m","o","m","e","n","t","." >>

\* one message for every failure
ErrorMessageGeneric(code) == ErrorGeneric

\* the message chosen in the catch block by error.code
ErrorMessage(code) ==
  CASE code = "insufficient_quota"  -> ErrorQuota
    [] code = "rate_limit_exceeded" -> ErrorRate
    [] OTHER                        -> ErrorGeneric

FeelFreeTo ==
  { << "c","o","n","t","a","c","t" >>,
    << "r","e","a","c","h"," ","o","u","t" >>, << "a","s","k" >> }
ClosingLiterals ==
  { 
    << "l","e","t"," ","m","e"," ","k","n","o","w"," ","i","f"," ","y","o","u"," ","n","e","e","d" >>,
    << "p","l","e","a","s","e"," ","d","o","n","'","t"," ","h","e","s","i","t","a","t","e"," ","t","o"," ","c","o","n","t","a","c","t" >>,
    << "w","e","'","r","e"," ","h","e","r","e"," ","t","o"," ","h","e","l","p" >> }
T_feel_free_to == << "f","e","e","l"," ","f","r","e","e"," ","t","o"," " >>
T_anything_else == << "i","s"," ","t","h","e","r","e"," ","a","n","y","t","h","i","n","g"," ","e","l","s","e" >>
T_help_with == << "h","e","l","p"," ","w","i","t","h" >>
T_more_information == << "f","o","r"," ","m","o","r","e"," ","i","n","f","o","r","m","a","t","i","o","n" >>
T_reach_out_to == << "r","e","a","c","h"," ","o","u","t"," ","t","o" >>
T_assist == << "a","s","s","i","s","t" >>

\* ChatBot.answerHasClosingPhrase
answerHasClosingPhrase(answerText) ==
  LET s   == toLowerCase(answerText)
      all == Positions(s)
  IN  \/ LitAny(s, Lit(s, all, T_feel_free_to), FeelFreeTo) # {}
      \/ LitAny(s, all, ClosingLiterals) # {}
      \/ Lit(s, DotStar(s, Lit(s, all, T_anything_else)), T_help_with) # {}
      \/ Lit(s, DotStar(s, Lit(s, all, T_more_information)), T_contact) # {}
      \/ Lit(s, DotStar(s, Lit(s, DotStar(s, Lit(s, all, T_reach_out_to)), T_team)),
             T_assist) # {}

\* ChatBot.addClosingPhrase; random is the index drawn, from 0
addClosingPhrase(answerText, random) ==
  answerText \o << "\n", "\n" >> \o closingPhrases[random + 1]

\* a match of /dd([^c]+)dd/ begins at position m of s, for a delimiter d of
\* the character c, once (*, _) or twice (**, __): the position of its
\* closing delimiter, or 0
ClosingAt(s, m, d) ==
  LET from == m + Len(d)
      stop == { j \in from..Len(s) : s[j] = d[1] }
      j    == IF stop = {} THEN 0 ELSE CHOOSE x \in stop : \A y \in stop : x <= y
  IN  IF Lit(s, {m}, d) # {} /\ j > from /\ Lit(s, {j}, d) # {} THEN j ELSE 0

\* text.replace(/dd([^c]+)dd/g, '$1'): the text from position i on, match by
\* match from the left
RECURSIVE StripFrom(_, _, _)
StripFrom(s, i, d) ==
  LET starts == { m \in i..Len(s) : ClosingAt(s, m, d) # 0 }
  IN  IF starts = {} THEN SubSeq(s, i, Len(s))
      ELSE LET m == CHOOSE x \in starts : \A y \in starts : x <= y
               j == ClosingAt(s, m, d)
           IN  SubSeq(s, i, m - 1) \o SubSeq(s, m + Len(d), j - 1)
                 \o StripFrom(s, j + Len(d), d)

\* text.replace(/\n{3,}/g, '\n\n'): of a run of line feeds the first two stay
CollapseLineFeeds(s) ==
  LET keep == { i \in 1..Len(s) :
                  ~(s[i] = "\n" /\ i >= 3 /\ s[i - 1] = "\n" /\ s[i - 2] = "\n") }
  IN  IF Cardinality(keep) = Len(s) THEN s
      ELSE [ n \in 1..Cardinality(keep) |->
               s[CHOOSE i \in keep : Cardinality({ j \in keep : j <= i }) = n] ]

\* ChatBot.cleanupFormattingArtifacts, on a text with no heading line and no
\* list line (the two replacements anchored at a line start change nothing)
cleanupFormattingArtifacts(text) ==
  trim(CollapseLineFeeds(
         StripFrom(StripFrom(StripFrom(StripFrom(text, 1, << "*", "*" >>), 1, << "*" >>),
                             1, << "_", "_" >>),
                   1, << "_" >>)))

----------------------------------------------------------------------------
(* ContextBuilder.prioritizeMatches                                        *)

MarkerWords ==
  { << "s","t","e","p" >>, << "f","i","r","s","t" >>, << "n","e","x","t" >>,
    << "t","h","e","n" >>, << "f","i","n","a","l","l","y" >> }

\* /\b(step|first|next|then|finally)\b/i.test(item.A || item.answer || '')
HasProceduralMarkers(item) == FindWords(toLowerCase(item.answer), MarkerWords) # {}

\* one weight for every priority
PriorityWeightFlat(priority) == 1

\* PRIORITY_WEIGHTS[item.metadata?.priority] || 1
PriorityWeight(priority) ==
  CASE priority = "high"   -> 3
    [] priority = "medium" -> 2
    [] OTHER               -> 1

\* the comparator of prioritizeMatches is negative: a is placed before b
PrioritizedBefore(st, a, b, procedural) ==
  LET itemA == st.items[a.index + 1]
      itemB == st.items[b.index + 1]
      aIsProcedural == HasProceduralMarkers(itemA)
      bIsProcedural == HasProceduralMarkers(itemB)
  IN  IF procedural /\ aIsProcedural /\ ~bIsProcedural THEN TRUE
      ELSE IF procedural /\ ~aIsProcedural /\ bIsProcedural THEN FALSE
      ELSE IF b.score # a.score THEN b.score - a.score < 0
      ELSE PriorityWeight(itemB.priority) - PriorityWeight(itemA.priority) < 0

\* matches.sort(comparator): stable, by insertion from the end
RECURSIVE InsertPrioritized(_, _, _, _)
InsertPrioritized(st, m, sorted, procedural) ==
  IF sorted = << >> THEN << m >>
  ELSE IF PrioritizedBefore(st, Head(sorted), m, procedural)
         THEN << Head(sorted) >> \o InsertPrioritized(st, m, Tail(sorted), procedural)
         ELSE << m >> \o sorted

RECURSIVE prioritizeMatches(_, _, _)
prioritizeMatches(st, matches, procedural) ==
  IF matches = << >> THEN << >>
  ELSE InsertPrioritized(st, Head(matches),
                         prioritizeMatches(st, Tail(matches), procedural), procedural)

\* the matches after ContextBuilder.build, which sorts the array it is given
\* in place unless it is empty
MatchesAfterBuild(st, matches, userQuestion) ==
  IF Len(matches) = 0 THEN matches
  ELSE prioritizeMatches(st, matches, isProcedural(userQuestion))

\* a build whose sort is applied to the items of the knowledge base
ItemsAfterBuildSorted(st, matches, userQuestion) ==
  IF Len(matches) = 0 THEN st.items
  ELSE [ n \in DOMAIN st.items |-> st.items[Len(st.items) + 1 - n] ]

\* this.items after ContextBuilder.build: the array that prioritizeMatches
\* sorts in place is the one filter() made in findTopMatches, and
\* getRelatedContent reads this.items and the indexes and assigns to none
ItemsAfterBuild(st, matches, userQuestion) == st.items

----------------------------------------------------------------------------
(* Context builder (KnowledgeBase.getRelatedContent, getRelatedQuestions,   *)
(* ContextBuilder.formatMatch and build, in the procedural engine and in    *)
(* the history-aware engine)                                                *)

Nl                     == << "\n" >>
T_Q_                   == << "Q",":"," " >>
T_A_                   == << "A",":"," " >>
T_Category_            == << "C","a","t","e","g","o","r","y",":"," " >>
T_SubCategory_         == << "S","u","b","-","c","a","t","e","g","o","r","y",":"," " >>
T_bar                  == << " ","|"," " >>
T_rule                 == << "\n","-","-","-","\n" >>
T_RelatedInformation   == << "\n","\n","#","#"," ","R","e","l","a","t","e","d"," ","I","n","f","o","r","m","a","t","i","o","n",":","\n" >>
T_Keywords_            == << "K","e","y","w","o","r","d","s",":"," " >>
T_comma                == << ","," " >>
T_high                 == << "h","i","g","h" >>
T_medium               == << "m","e","d","i","u","m" >>
T_low                  == << "l","o","w" >>

UpperOf ==
  [ c \in Range(LowerLetters) |->
      UpperLetters[CHOOSE i \in DOMAIN LowerLetters : LowerLetters[i] = c] ]

\* String.prototype.toUpperCase
toUpperCase(s) ==
  [ i \in 1..Len(s) |-> IF s[i] \in Range(LowerLetters) THEN UpperOf[s[i]] ELSE s[i] ]

\* String.prototype.replace with two strings of one character: the first
\* occurrence alone is replaced
ReplaceFirst(s, c, d) ==
  [ i \in 1..Len(s) |-> IF s[i] = c /\ (\A j \in 1..(i - 1) : s[j] # c) THEN d ELSE s[i] ]

\* metadata.priority as text ('' where there is none)
PriorityText(priority) ==
  CASE priority = "high"   -> T_high
    [] priority = "medium" -> T_medium
    [] priority = "low"    -> T_low
    [] OTHER               -> NoText

\* metadata.intent ? `[${metadata.intent.replace('_', ' ').toUpperCase()}]` : ''
IntentTag(item) ==
  IF item.intent = NoText THEN NoText
  ELSE << "[" >> \o toUpperCase(ReplaceFirst(item.intent, "_", " ")) \o << "]" >>

\* metadata.priority ? `(${metadata.priority})` : ''
PriorityTag(item) ==
  IF item.priority = "" THEN NoText
  ELSE << "(" >> \o PriorityText(item.priority) \o << ")" >>

\* ContextBuilder.formatMatch of the procedural engine (an item of the model
\* has no metadata.context)
formatMatch(item) ==
  Nl \o IntentTag(item) \o PriorityTag(item) \o Nl \o T_Q_ \o item.question
     \o Nl \o T_A_ \o item.answer \o Nl
     \o (IF item.category = NoText THEN NoText ELSE T_Category_ \o item.category)
     \o (IF item.sub_category = NoText THEN NoText
         ELSE T_bar \o T_SubCategory_ \o item.sub_category)
     \o T_rule

\* Array.prototype.join(', ')
RECURSIVE JoinComma(_)
JoinComma(words) ==
  IF words = << >> THEN NoText
  ELSE IF Len(words) = 1 THEN Head(words)
  ELSE Head(words) \o T_comma \o JoinComma(Tail(words))

\* ContextBuilder.formatMatch of the history-aware engine (an item with no
\* keyword stands for one without metadata.keywords)
HistoryAwareFormatMatch(item) ==
  Nl \o IntentTag(item) \o PriorityTag(item) \o Sp \o T_Q_ \o item.question
     \o Nl \o T_A_ \o item.answer
     \o (IF item.keywords = << >> THEN NoText
         ELSE Nl \o T_Keywords_ \o JoinComma(item.keywords))
     \o Nl

\* the value undefined where an item is expected
UndefinedItem == -1

\* this.items[index] for an index below this.items.length: the item, named by
\* its index, or undefined when the index is negative
ItemAt(index) == IF index >= 0 THEN index ELSE UndefinedItem

\* Set.prototype.add: the values keep the order in which they were first added
SetAdd(values, v) == IF v \in Range(values) THEN values ELSE Append(values, v)

\* metadata.related_questions.slice(0, maxRelated).forEach(index => ...)
RECURSIVE AddRelatedQuestions(_, _, _)
AddRelatedQuestions(st, relatedItems, links) ==
  IF links = << >> THEN relatedItems
  ELSE AddRelatedQuestions(st,
         IF Head(links) < Len(st.items) THEN SetAdd(relatedItems, ItemAt(Head(links)))
                                        ELSE relatedItems,
         Tail(links))

\* categoryItems.slice(0, 2).forEach(index => ...)
RECURSIVE AddSiblings(_, _, _)
AddSiblings(relatedItems, indexes, mainMatchIndex) ==
  IF indexes = << >> THEN relatedItems
  ELSE AddSiblings(IF Head(indexes) # mainMatchIndex
                     THEN SetAdd(relatedItems, Head(indexes)) ELSE relatedItems,
                   Tail(indexes), mainMatchIndex)

\* category && this.categoryIndex.has(category.toLowerCase()): the first two
\* indexes under that key, none without
SiblingsIn(index, name) ==
  IF name # NoText /\ toLowerCase(name) \in DOMAIN index
    THEN Slice(index[toLowerCase(name)], 2) ELSE << >>

\* KnowledgeBase.getRelatedContent(mainMatchIndex, maxRelated): the related
\* items in the order of the set, each named by its index
getRelatedContent(st, mainMatchIndex, maxRelated) ==
  IF mainMatchIndex + 1 \notin DOMAIN st.items THEN << >>
  ELSE Slice(
         AddSiblings(
           AddSiblings(
             AddRelatedQuestions(st, << >>,
               Slice(st.items[mainMatchIndex + 1].related_questions, maxRelated)),
             SiblingsIn(st.categoryIndex, st.items[mainMatchIndex + 1].category),
             mainMatchIndex),
           SiblingsIn(st.subCategoryIndex, st.items[mainMatchIndex + 1].sub_category),
           mainMatchIndex),
         maxRelated)

\* what build has put together: the text, the rounds of the loop in which a
\* match was formatted with the length of the text after each, the number of
\* rounds begun, the related items (by index), the intents seen, and whether
\* an exception ended the build (it returns nothing then)
NoContext ==
  [ contextText |-> NoText, blocks |-> << >>, lengths |-> << >>, visited |-> 0,
    related |-> << >>, seenIntents |-> {}, threw |-> FALSE ]

\* contextText += this.formatMatch(item, metadata, match.boosts), as match i
AppendMatch(st, acc, match, i) ==
  [ acc EXCEPT !.contextText = @ \o formatMatch(st.items[match.index + 1]),
               !.blocks = Append(@, i),
               !.lengths = Append(@, Len(acc.contextText)
                                       + Len(formatMatch(st.items[match.index + 1]))),
               !.visited = i ]

\* an early exit that looks at the length alone
BreaksEarlyOnLength(acc, match, budget) == Len(acc.contextText) > budget

\* if (score > 0.8 && contextText.length > 600) break, and with 500 in the
\* history-aware engine
BreaksEarly(acc, match, budget) == match.score > 80 /\ Len(acc.contextText) > budget

\* the for loop of build from match i on (matches count from 1 here)
RECURSIVE BuildLoop(_, _, _, _, _)
BuildLoop(st, prioritized, i, maxItems, acc) ==
  IF i > Min(Len(prioritized), maxItems) THEN acc
  ELSE IF BreaksEarly(AppendMatch(st, acc, prioritized[i], i), prioritized[i], 600)
    THEN AppendMatch(st, acc, prioritized[i], i)
  ELSE BuildLoop(st, prioritized, i + 1, maxItems,
                 AppendMatch(st, acc, prioritized[i], i))

\* the texts of blocks one after the other
RECURSIVE FlattenBlocks(_)
FlattenBlocks(blocks) ==
  IF blocks = << >> THEN NoText ELSE Head(blocks) \o FlattenBlocks(Tail(blocks))

\* relatedContent.forEach((item, index) => { if (index < 3) ... }) after the
\* heading: item.metadata throws when the item is undefined
AppendRelated(st, acc) ==
  IF acc.related = << >> THEN acc
  ELSE IF UndefinedItem \in Range(Slice(acc.related, 3)) THEN [ acc EXCEPT !.threw = TRUE ]
  ELSE [ acc EXCEPT !.contextText =
           @ \o T_RelatedInformation
             \o FlattenBlocks([ n \in 1..Min(3, Len(acc.related)) |->
                                  formatMatch(st.items[acc.related[n] + 1]) ]) ]

\* isProcedural ? Math.min(6, CONFIG.MAX_CONTEXT_ITEMS) : CONFIG.MAX_CONTEXT_ITEMS
MaxItemsOf(cfg, procedural) ==
  IF procedural THEN Min(6, cfg.MAX_CONTEXT_ITEMS) ELSE cfg.MAX_CONTEXT_ITEMS

\* the related content of the first match, which the loop fetches in its
\* first round when the question is procedural
RelatedOfFirst(st, prioritized, procedural) ==
  IF procedural THEN getRelatedContent(st, prioritized[1].index, 4) ELSE << >>

\* ContextBuilder.build(matches, userQuestion, knowledgeBase) of the
\* procedural engine
build(st, cfg, matches, userQuestion) ==
  IF Len(matches) = 0 THEN NoContext
  ELSE AppendRelated(st,
         BuildLoop(st, prioritizeMatches(st, matches, isProcedural(userQuestion)), 1,
                   MaxItemsOf(cfg, isProcedural(userQuestion)),
                   [ NoContext EXCEPT !.related =
                       RelatedOfFirst(st,
                         prioritizeMatches(st, matches, isProcedural(userQuestion)),
                         isProcedural(userQuestion)) ]))

\* KnowledgeBase.getRelatedQuestions(itemIndex, 3) of the history-aware
\* engine: the linked items, or the exception of relatedItem.Q on undefined
getRelatedQuestions(st, itemIndex, maxRelated) ==
  [ threw |-> \E n \in DOMAIN Slice(st.items[itemIndex + 1].related_questions, maxRelated) :
                st.items[itemIndex + 1].related_questions[n] < 0,
    questions |-> SelectSeq(Slice(st.items[itemIndex + 1].related_questions, maxRelated),
                            LAMBDA relatedIndex : relatedIndex < Len(st.items)) ]

\* for (const r of rel): r is pushed when its question has not been seen
RECURSIVE PushUnseen(_, _, _)
PushUnseen(st, relatedQuestions, rel) ==
  IF rel = << >> THEN relatedQuestions
  ELSE PushUnseen(st,
         IF \E n \in DOMAIN relatedQuestions :
              st.items[relatedQuestions[n] + 1].question = st.items[Head(rel) + 1].question
           THEN relatedQuestions ELSE Append(relatedQuestions, Head(rel)),
         Tail(rel))

\* if (i < 3 && relatedQuestions.length < 9) { ... }
AddRelatedOf(st, acc, match, i) ==
  IF ~(i - 1 < 3 /\ Len(acc.related) < 9) THEN acc
  ELSE IF getRelatedQuestions(st, match.index, 3).threw THEN [ acc EXCEPT !.threw = TRUE ]
  ELSE [ acc EXCEPT !.related =
           PushUnseen(st, @, getRelatedQuestions(st, match.index, 3).questions) ]

\* seenIntents.has(metadata.intent) && score < 0.7
IsDuplicateIntent(st, acc, match) ==
  st.items[match.index + 1].intent \in acc.seenIntents /\ match.score < 70

\* one round of the loop for a match that is not skipped
HistoryAwareVisit(st, acc, match, i) ==
  AddRelatedOf(st,
    [ acc EXCEPT !.seenIntents = @ \cup { st.items[match.index + 1].intent },
                 !.contextText = @ \o HistoryAwareFormatMatch(st.items[match.index + 1]),
                 !.blocks = Append(@, i),
                 !.lengths = Append(@, Len(acc.contextText)
                                + Len(HistoryAwareFormatMatch(st.items[match.index + 1]))),
                 !.visited = i ],
    match, i)

\* the for loop of the history-aware build from match i on
RECURSIVE HistoryAwareBuildLoop(_, _, _, _)
HistoryAwareBuildLoop(st, prioritized, i, acc) ==
  IF i > Len(prioritized) \/ acc.threw THEN acc
  ELSE IF IsDuplicateIntent(st, acc, prioritized[i])
    THEN HistoryAwareBuildLoop(st, prioritized, i + 1, [ acc EXCEPT !.visited = i ])
  ELSE IF BreaksEarly(HistoryAwareVisit(st, acc, prioritized[i], i), prioritized[i], 500)
    THEN HistoryAwareVisit(st, acc, prioritized[i], i)
  ELSE HistoryAwareBuildLoop(st, prioritized, i + 1,
                             HistoryAwareVisit(st, acc, prioritized[i], i))

\* ContextBuilder.build(matches, userQuestion, knowledgeBase) of the
\* history-aware engine, which skips the intents it has seen
HistoryAwareBuild(st, matches) ==
  IF Len(matches) = 0 THEN NoContext
  ELSE HistoryAwareBuildLoop(st, prioritizeMatches(st, matches, FALSE), 1, NoContext)

----------------------------------------------------------------------------
(* ChatBot.processQuery                                                    *)

\* a key that keeps the letter case of the question
CacheKeyNoFold(question) == trim(question)

\* const cacheKey = question.toLowerCase().trim()
CacheKey(question) == trim(toLowerCase(question))

\* a lookup whose result is never used
UseCachedNever(got) == FALSE

\* if (cached) return cached
UseCached(got) == got.hit

\* a write made whatever the matches
ShouldCacheAlways(matches, contactFollowup) == TRUE

\* if (matches.length > 0 && !isContactFollowup) this.cache.set(...)
ShouldCache(matches, contactFollowup) == Len(matches) > 0 /\ ~contactFollowup

\* history.push(exchange), then the splice that keeps the last
\* MAX_HISTORY_LENGTH * 2 entries
PushHistory(history, exchange) ==
  LET pushed == Append(history, exchange)
  IN  IF Len(pushed) > MAX_HISTORY_LENGTH * 2
        THEN SubSeq(pushed, Len(pushed) - MAX_HISTORY_LENGTH * 2 + 1, Len(pushed))
        ELSE pushed

\* the answer of the branch taken with no context or on a contact follow-up
\* (content is the text of the completion, empty when there is none)
NoContextAnswer(content) == IF content = NoText THEN NoContextFallback ELSE content

\* the answer of the other branch
ContextAnswer(question, content, random) ==
  LET answer == cleanupFormattingArtifacts(IF content = NoText THEN AnswerFallback
                                           ELSE content)
  IN  IF ~isGreeting(question) /\ ~answerHasClosingPhrase(answer)
        THEN addClosingPhrase(answer, random)
        ELSE answer

----------------------------------------------------------------------------
(* The state of a ChatBot: the requests in flight and the histories        *)

VARIABLES
  conversationHistory,  \* this.conversationHistory: sessionId -> array of { user, bot }
  req,                  \* the calls of processQuery, in the order they are made:
                        \* where each stands, its locals and its result
  lastDone,             \* per normalised text, the last call that completed
  historyArrays         \* the arrays of messages that the calls of the history-aware
                        \* processQuery hold or have stored, in the order they are made

queryVars == << conversationHistory, req, lastDone, historyArrays >>

\* MaxReq calls of processQuery are made, and a random index is drawn below
\* MaxRandom
MaxReq == 2
MaxRandom == 1

Slots == 1..MaxReq

\* no entry of the cache holds the payload
NotCached == -1

\* what is kept of a completed call: whether it returned, its question, its
\* payload, the timestamp of the cache entry that holds this payload, the
\* time it completed
Done(returned, question, response, cachedAt, at) ==
  [ called |-> TRUE, returned |-> returned, question |-> question,
    response |-> response, cachedAt |-> cachedAt, at |-> at ]

NoPrev == [ called |-> FALSE, returned |-> FALSE, question |-> NoText,
            response |-> Null, cachedAt |-> NotCached, at |-> 0 ]

\* a call that has not been made
IdleReq ==
  [ pc |-> "idle", question |-> NoText, sessionId |-> "", cacheKey |-> NoText,
    hit |-> FALSE, evicted |-> FALSE, matches |-> << >>, isContactFollowup |-> FALSE,
    embeddingCalls |-> 0, generationCalls |-> 0, response |-> Null, error |-> NoText,
    startedAt |-> 0, prev |-> NoPrev, alongside |-> {}, content |-> NoText,
    random |-> 0, code |-> "", history |-> 0, first |-> FALSE,
    cachedAt |-> NotCached ]

\* new ChatBot(), before its load
InitQuery ==
  /\ conversationHistory = EmptyMap
  /\ req = [ p \in Slots |-> IdleReq ]
  /\ lastDone = EmptyMap
  /\ historyArrays = << >>

----------------------------------------------------------------------------
(* The knowledge store in operation: load and findTopMatches called in any *)
(* order, with any source and any query                                    *)

\* the longest JSON array, and the largest k
MaxItems == 2
MaxK == 2

RECURSIVE SeqsUpTo(_, _)
SeqsUpTo(S, n) ==
  IF n = 0 THEN { << >> }
  ELSE LET shorter == SeqsUpTo(S, n - 1)
       IN  shorter \cup { Append(q, e) : q \in { x \in shorter : Len(x) = n - 1 }, e \in S }

\* the elements of the arrays that load is called with
LoadElems == { ItemShip, ItemSteps, NumberElem }

\* the sources: the four failures before an array is at hand, every array of
\* accepted elements, and every such array followed by a bad element
Sources ==
  { MissingFile, UnreadableFile, MalformedFile, NonArrayFile }
  \cup { ArrayFile(es) : es \in SeqsUpTo(LoadElems, MaxItems) }
  \cup { ArrayFile(Append(es, b)) : es \in SeqsUpTo(LoadElems, MaxItems - 1), b \in BadElems }

\* what kind of source it is, by its content
SourceClass(src) ==
  IF src.kind # "array" THEN src.kind
  ELSE IF src.elems = << >> THEN "emptyarray"
  ELSE IF \E i \in DOMAIN src.elems : src.elems[i] \in BadElems THEN "badelement"
  ELSE IF \E i \in DOMAIN src.elems : src.elems[i].type # "object" THEN "nonitems"
  ELSE "items"

\* the values of the environment variable SIMILARITY_THRESHOLD tried
ThresholdEnvs == { Unset, 5, 70 }

DefaultConfig ==
  [ SIMILARITY_THRESHOLD |-> SimilarityThreshold(Unset),
    MAX_CONTEXT_ITEMS    |-> MaxContextItems(Unset) ]

\* the embeddings the embedding provider may hand back for a query
QueryEmbeddings ==
  { Vec(<< 3, 4 >>), Vec(<< 4, 3 >>), Vec(<< 5, 0 >>), Vec(<< 1, 1 >>), Vec(<< 5 >>),
    NoVec }

T_to  == << "t","o" >>

\* the query texts tried
QueryTexts ==
  { T_ship,
    T_Ship \o Sp \o T_price \o << "?" >>,
    T_how \o Sp \o T_to \o Sp \o T_ship,
    T_steps \o Sp \o T_call,
    T_call \o Sp \o T_ship \o Sp \o T_price \o Sp \o T_steps,
    T_first \o Sp \o T_call \o T_qm,
    T_we }

NoLoad == [ called |-> FALSE, class |-> "", outcome |-> "", wasLoaded |-> FALSE ]
NoFind == [ called |-> FALSE, queryEmbedding |-> NoVec, query |-> NoText, k |-> 0,
            scores |-> << >>, result |-> << >>, built |-> FALSE, prioritized |-> << >>,
            context |-> NoContext, builder |-> "" ]

\* the store takes the value st
SetStore(st) ==
  /\ items' = st.items
  /\ magnitudes' = st.magnitudes
  /\ keywordIndex' = st.keywordIndex
  /\ intentIndex' = st.intentIndex
  /\ categoryIndex' = st.categoryIndex
  /\ subCategoryIndex' = st.subCategoryIndex
  /\ isLoaded' = st.isLoaded

storeVars == << items, magnitudes, keywordIndex, intentIndex, categoryIndex,
                subCategoryIndex, isLoaded >>

vars == << kbVars, config, cacheVars, queryVars >>

\* new KnowledgeBase()
InitKB ==
  /\ items = NewStore.items
  /\ magnitudes = NewStore.magnitudes
  /\ keywordIndex = NewStore.keywordIndex
  /\ intentIndex = NewStore.intentIndex
  /\ categoryIndex = NewStore.categoryIndex
  /\ subCategoryIndex = NewStore.subCategoryIndex
  /\ isLoaded = NewStore.isLoaded
  /\ lastLoad = NoLoad
  /\ lastFind = NoFind
  /\ config = DefaultConfig
  /\ InitCache
  /\ InitQuery

\* knowledgeBase.load(filePath); the calls are made one after the other, each
\* when the caller has taken the result of the one before
Load ==
  /\ ~lastFind.called
  /\ \E src \in Sources :
       LET r == load(Store, src)
       IN  /\ SetStore(r.store)
           /\ lastLoad' = [ called |-> TRUE, class |-> SourceClass(src),
                            outcome |-> r.outcome, wasLoaded |-> isLoaded ]
  /\ UNCHANGED << lastFind, config, cacheVars, queryVars >>

\* knowledgeBase.findTopMatches(queryEmbedding, query, k)
FindTopMatches ==
  /\ ~lastFind.called
  /\ \E queryEmbedding \in QueryEmbeddings, query \in QueryTexts, k \in 1..MaxK :
       lastFind' =
         [ called |-> TRUE, queryEmbedding |-> queryEmbedding, query |-> query, k |-> k,
           scores |-> IF isLoaded THEN Scores(Store, queryEmbedding, query) ELSE << >>,
           result |-> findTopMatches(Store, config, queryEmbedding, query, k),
           built |-> FALSE, prioritized |-> << >>, context |-> NoContext,
           builder |-> "" ]
  /\ UNCHANGED << storeVars, lastLoad, config, cacheVars, queryVars >>

\* the caller has taken the matches
TakeMatches ==
  /\ lastFind.called
  /\ lastFind' = NoFind
  /\ UNCHANGED << storeVars, lastLoad, config, cacheVars, queryVars >>

\* ContextBuilder.build(matches, query, knowledgeBase) on the matches that
\* findTopMatches returned: the array is sorted in place
Build ==
  /\ lastFind.called
  /\ ~lastFind.built
  /\ lastFind' = [ lastFind EXCEPT
                     !.built = TRUE,
                     !.prioritized = MatchesAfterBuild(Store, lastFind.result,
                                                       lastFind.query),
                     !.context = build(Store, config, lastFind.result, lastFind.query),
                     !.builder = "procedural" ]
  /\ items' = ItemsAfterBuild(Store, lastFind.result, lastFind.query)
  /\ UNCHANGED << magnitudes, keywordIndex, intentIndex, categoryIndex,
                  subCategoryIndex, isLoaded >>
  /\ UNCHANGED << lastLoad, config, cacheVars, queryVars >>

NextKB == Load \/ FindTopMatches \/ Build \/ TakeMatches

SpecKB == InitKB /\ [][NextKB]_vars

\* the scorer and ranker alone: the store holds any array of accepted elements
\* that load has loaded, under any threshold of ThresholdEnvs
InitRank ==
  /\ \E es \in SeqsUpTo(GoodElems, MaxItems) :
       LET r == load(NewStore, ArrayFile(es))
       IN  /\ items = r.store.items
           /\ magnitudes = r.store.magnitudes
           /\ keywordIndex = r.store.keywordIndex
           /\ intentIndex = r.store.intentIndex
           /\ categoryIndex = r.store.categoryIndex
           /\ subCategoryIndex = r.store.subCategoryIndex
           /\ isLoaded = r.store.isLoaded
           /\ lastLoad = [ called |-> TRUE, class |-> SourceClass(ArrayFile(es)),
                           outcome |-> r.outcome, wasLoaded |-> FALSE ]
  /\ lastFind = NoFind
  /\ config \in { [ DefaultConfig EXCEPT !.SIMILARITY_THRESHOLD = SimilarityThreshold(e) ] :
                     e \in ThresholdEnvs }
  /\ InitCache
  /\ InitQuery

NextRank == FindTopMatches \/ Build \/ TakeMatches

SpecRank == InitRank /\ [][NextRank]_vars

----------------------------------------------------------------------------
(* Properties of load                                                      *)

\* the sources on which load fails: no file, a read error, a syntax error (an
\* empty file is one), a parsed value that is no array, an array with an
\* element load throws on
FailingClasses == { "missing", "unreadable", "malformed", "nonarray", "badelement" }

StoreIsReset == items = << >> /\ magnitudes = << >> /\ ~isLoaded

\* C1, as stated: load never raises, and for every source that is missing,
\* unreadable, malformed or not a sequence of items it leaves items and
\* magnitudes empty and isLoaded false
C1_Original ==
  lastLoad.called =>
    /\ lastLoad.outcome = "returned"
    /\ (lastLoad.class \in FailingClasses \cup {"nonitems"} => StoreIsReset)

\* C1, amended: load never raises, and for every source on which it fails
\* (FailingClasses) it leaves items and magnitudes empty and isLoaded false,
\* whatever the store held before; an array of values that are not knowledge
\* items but that load does not throw on (numbers) is loaded
C1_LoadFailureResets ==
  lastLoad.called =>
    /\ lastLoad.outcome = "returned"
    /\ (lastLoad.class \in FailingClasses => StoreIsReset)
    /\ (lastLoad.class = "nonitems" => isLoaded /\ items # << >>)

\* a reload that failed while the indexes were being built, after a successful load
C1_Witness ==
  /\ lastLoad.called /\ lastLoad.wasLoaded
  /\ lastLoad.class = "badelement"
  /\ keywordIndex # EmptyMap
  /\ StoreIsReset

\* C2, as stated: for an empty or corrupt source load does not throw, isLoaded
\* is false afterwards and every later findTopMatches returns no match, until
\* a later load
C2_Original ==
  (lastLoad.called /\ lastLoad.class \in FailingClasses \cup {"emptyarray"}) =>
    /\ lastLoad.outcome = "returned"
    /\ ~isLoaded
    /\ (lastFind.called => lastFind.result = << >>)

\* C2, amended: for a corrupt source or an empty file (FailingClasses) load
\* does not throw, isLoaded is false afterwards and every later findTopMatches
\* returns no match, until a later load; for a source that holds the empty
\* array load does not throw and findTopMatches returns no match, and
\* isLoaded is true
C2_EmptyOrCorruptSource ==
  lastLoad.called =>
    /\ (lastLoad.class \in FailingClasses =>
          /\ lastLoad.outcome = "returned"
          /\ ~isLoaded
          /\ (lastFind.called => lastFind.result = << >>))
    /\ (lastLoad.class = "emptyarray" =>
          /\ lastLoad.outcome = "returned"
          /\ isLoaded
          /\ (lastFind.called => lastFind.result = << >>))

\* a query that would match the items of the earlier load, after a failed reload
C2_Witness ==
  /\ lastLoad.called /\ lastLoad.wasLoaded
  /\ lastLoad.class \in FailingClasses
  /\ lastFind.called
  /\ lastFind.queryEmbedding = Vec(<< 3, 4 >>)
  /\ lastFind.result = << >>

----------------------------------------------------------------------------
(* Properties of findTopMatches                                            *)

\* how many of the scored items come before item i when the items are put in
\* descending order of score, equal scores in the order of the knowledge base
RankOf(scores, i) ==
  Cardinality({ j \in DOMAIN scores :
                  \/ scores[j].score > scores[i].score
                  \/ (scores[j].score = scores[i].score /\ j < i) })

\* the positions (from 1) of the items that findTopMatches returned, in order
ResultPositions(result) == [ n \in DOMAIN result |-> result[n].index + 1 ]

\* C3: findTopMatches returns exactly the items that are among the k
\* highest-scored ones and whose score is strictly above the threshold, in
\* descending order of score; so it returns at most
\* min(k, number of items above the threshold) items
C3_TopKThenThreshold ==
  lastFind.called =>
    LET scores == lastFind.scores
        pos    == ResultPositions(lastFind.result)
        above  == { i \in DOMAIN scores : scores[i].score > config.SIMILARITY_THRESHOLD }
    IN  /\ Range(pos) = { i \in above : RankOf(scores, i) < lastFind.k }
        /\ \A n \in DOMAIN pos : lastFind.result[n] = scores[pos[n]]
        /\ \A m, n \in DOMAIN pos : m < n => RankOf(scores, pos[m]) < RankOf(scores, pos[n])
        /\ Len(pos) <= Min(lastFind.k, Cardinality(above))

\* an item above the threshold is left out because it is ranked beyond k
C3_Witness ==
  /\ lastFind.called
  /\ lastFind.k = 1
  /\ Len(lastFind.result) = 1
  /\ \E i \in DOMAIN lastFind.scores :
        /\ lastFind.scores[i].score > config.SIMILARITY_THRESHOLD
        /\ lastFind.scores[i].index # lastFind.result[1].index

\* C4, as stated: every score is at most 1.0, and an item whose base score is
\* above 0 has a score that is not smaller than its base score
C4_Original ==
  lastFind.called =>
    \A i \in DOMAIN lastFind.scores :
      /\ lastFind.scores[i].score <= Scale
      /\ (lastFind.scores[i].baseScore > 0 =>
            lastFind.scores[i].score >= lastFind.scores[i].baseScore)

\* the embedding of item i (position from 1) cannot be compared with the query's
Unscorable(i) ==
  \/ items[i].embedding.tag # "array"
  \/ lastFind.queryEmbedding.tag # "array"
  \/ Len(items[i].embedding.vec) # Len(lastFind.queryEmbedding.vec)

\* the store without the items that cannot be scored
ScorableStore ==
  LET keep == SelectSeq([ i \in DOMAIN items |-> i ], LAMBDA i : ~Unscorable(i))
  IN  [ Store EXCEPT !.items      = [ n \in DOMAIN keep |-> items[keep[n]] ],
                     !.magnitudes = [ n \in DOMAIN keep |-> magnitudes[keep[n]] ] ]

\* a match without the index of its item
MatchOf(st, m) ==
  [ item |-> st.items[m.index + 1], score |-> m.score, baseScore |-> m.baseScore,
    boosts |-> m.boosts ]

\* C5: an item without embedding, or with an embedding whose length is not
\* the query embedding's, scores exactly -1 and is never returned; every
\* other item is scored, and the matches returned are the ones returned when
\* the unscorable items are not in the store at all
C5_UnscorableItems ==
  (lastFind.called /\ isLoaded) =>
    /\ Len(lastFind.scores) = Len(items)
    /\ \A i \in DOMAIN items :
          Unscorable(i) =>
            /\ lastFind.scores[i].score = -Scale
            /\ \A n \in DOMAIN lastFind.result : lastFind.result[n].index + 1 # i
    /\ LET alone == findTopMatches(ScorableStore, config, lastFind.queryEmbedding,
                                    lastFind.query, lastFind.k)
        IN  [ n \in DOMAIN lastFind.result |-> MatchOf(Store, lastFind.result[n]) ]
              = [ n \in DOMAIN alone |-> MatchOf(ScorableStore, alone[n]) ]

\* an item without embedding stands first in the store, and the item after it
\* is returned
C5_Witness ==
  /\ lastFind.called /\ isLoaded
  /\ Len(items) >= 2
  /\ items[1].embedding.tag = "absent" /\ items[1].type = "object"
  /\ \E n \in DOMAIN lastFind.result : lastFind.result[n].index = 1

----------------------------------------------------------------------------
(* Operations of the response cache                                      *)

\* time passes, one CACHE_TTL at a time
Tick ==
  /\ now + CACHE_TTL <= MaxNow
  /\ now' = now + CACHE_TTL
  /\ UNCHANGED << cache, nextSweep, written, lastGet, kbVars, config, queryVars >>

\* cache.get(key)
Get ==
  \E key \in CacheKeys :
    LET r == CacheGet(cache, key, now)
    IN  /\ cache' = r.cache
        /\ lastGet' = [ called |-> TRUE, key |-> key, at |-> now, hit |-> r.hit,
                        data |-> r.data ]
        /\ UNCHANGED << now, nextSweep, written, kbVars, config, queryVars >>

\* cache.set(key, data)
Set ==
  \E key \in CacheKeys, data \in Payloads :
    /\ cache' = CacheSet(cache, key, data, now)
    /\ written' = MapSet(written, key, [ timestamp |-> now, data |-> data ])
    /\ lastGet' = NoGet
    /\ UNCHANGED << now, nextSweep, kbVars, config, queryVars >>

\* the timer fires, at its time or later: () => this.cleanup()
Cleanup ==
  /\ now >= nextSweep
  /\ cache' = CacheCleanup(cache, now)
  /\ nextSweep' = nextSweep + CLEANUP_INTERVAL
  /\ lastGet' = NoGet
  /\ UNCHANGED << now, written, kbVars, config, queryVars >>

NextCache == Tick \/ Get \/ Set \/ Cleanup

\* the cache alone, beside a store that was never loaded
SpecCache == InitKB /\ [][NextCache]_vars

\* C6: a get of a key returns the data most recently set under that key exactly
\* when the key was set and no more than CACHE_TTL has passed since that set;
\* otherwise it returns null and the cache holds no entry under the key
C6_GetWithinTtl ==
  lastGet.called =>
    LET k == lastGet.key
        live == k \in DOMAIN written /\ lastGet.at - written[k].timestamp <= CACHE_TTL
    IN  /\ lastGet.hit <=> live
        /\ lastGet.hit => lastGet.data = written[k].data
        /\ ~lastGet.hit => lastGet.data = Null /\ k \notin DOMAIN cache

\* a get made later than CACHE_TTL after the set of its key has missed and the
\* entry is gone, while an entry set later under the other key is still held
C6_Witness ==
  /\ lastGet.called
  /\ ~lastGet.hit
  /\ lastGet.key \in DOMAIN written
  /\ lastGet.at - written[lastGet.key].timestamp > CACHE_TTL
  /\ DOMAIN cache = CacheKeys \ {lastGet.key}

----------------------------------------------------------------------------
(* Operations of the ChatBot                                               *)

T_bye == << "b","y","e" >>
T_call_us_marked == << "*","c","a","l","l"," ","u","s","*" >>

\* the questions asked: two that differ in letter case and in the whitespace
\* around them, a contact query, and a greeting whose answer suggests to
\* reach out
Questions == { T_ship, T_Ship \o Sp, T_call, T_bye }

Sessions == { "default" }

\* error.code of a failed provider call
ErrorCodes == { "insufficient_quota", "rate_limit_exceeded", "other" }

Failures == { [ ok |-> FALSE, code |-> c, embedding |-> NoVec, content |-> NoText ] :
                c \in ErrorCodes }

\* what openai.embeddings.create may do: an embedding close to the items, one
\* far from them, or a failure
EmbeddingOutcomes ==
  { [ ok |-> TRUE, code |-> "", embedding |-> e, content |-> NoText ] :
      e \in { Vec(<< 3, 4 >>), Vec(<< -3, -4 >>) } } \cup Failures

\* the content of a completion: a text with emphasis marks that tells to call,
\* or none
Contents == { T_call_us_marked, NoText }

\* what openai.chat.completions.create may do: a content, or a failure
GenerationOutcomes ==
  { [ ok |-> TRUE, code |-> "", embedding |-> NoVec, content |-> c ] :
      c \in Contents } \cup Failures

Randoms == 0..(MaxRandom - 1)

\* ContextAnswer on the questions, contents and random indexes of the model
ContextAnswerOf ==
  [ q \in Questions |-> [ c \in Contents |-> [ random \in Randoms |->
      ContextAnswer(q, c, random) ] ] ]

\* every text that a call can put in a history as the message of the bot
BotMessages ==
  { generateGreeting(q, random) : q \in Questions, random \in Randoms }
    \cup { ErrorMessage(c) : c \in ErrorCodes }
    \cup { NoContextAnswer(c) : c \in Contents }
    \cup { ContextAnswerOf[q][c][random] : q \in Questions, c \in Contents,
                                           random \in Randoms }

\* isContactFollowup on the questions of the model and a history that ends
\* with a message of BotMessages
ContactFollowupOf ==
  [ q \in Questions |-> [ b \in BotMessages |->
      isContactFollowup(q, << [ user |-> q, bot |-> b ] >>) ] ]

\* the knowledge base of the ChatBot, loaded in its constructor
QueryItems == << ItemShip, ItemSteps >>
QueryStore == load(NewStore, ArrayFile(QueryItems)).store

InitChatBot ==
  /\ items = QueryStore.items
  /\ magnitudes = QueryStore.magnitudes
  /\ keywordIndex = QueryStore.keywordIndex
  /\ intentIndex = QueryStore.intentIndex
  /\ categoryIndex = QueryStore.categoryIndex
  /\ subCategoryIndex = QueryStore.subCategoryIndex
  /\ isLoaded = QueryStore.isLoaded
  /\ lastLoad = NoLoad
  /\ lastFind = NoFind
  /\ config = DefaultConfig
  /\ InitCache
  /\ InitQuery

\* the timestamp of the cache entry of c that holds the payload under key
CachedAt(c, key, response) ==
  IF key \in DOMAIN c /\ c[key].data = response THEN c[key].timestamp ELSE NotCached

\* the history of a session, created empty when the session is new
HistoryOf(sessionId) ==
  IF sessionId \in DOMAIN conversationHistory THEN conversationHistory[sessionId]
  ELSE << >>

\* processQuery(question, sessionId), up to its first await or its return;
\* random is the index drawn when the greeting is a default one
ProcessQuery(p, question, sessionId, random) ==
  /\ req[p].pc = "idle"
  /\ \A q \in Slots : q < p => req[q].pc # "idle"
  /\   LET history == HistoryOf(sessionId)
           key     == CacheKey(question)
           got     == CacheGet(cache, key, now)
           call    == [ IdleReq EXCEPT !.question = question, !.sessionId = sessionId,
                                       !.startedAt = now,
                                       !.alongside =
                                          { q \in Slots :
                                              req[q].pc \in {"embedding", "generation"} },
                                       !.prev = IF key \in DOMAIN lastDone
                                                  THEN lastDone[key] ELSE NoPrev ]
           greetingResponse ==
             Response(generateGreeting(question, random), << >>, FALSE, NoText,
                      TRUE, FALSE, FALSE)
       IN  IF isGreeting(question)
             THEN /\ conversationHistory' =
                       MapSet(conversationHistory, sessionId,
                              PushHistory(history, [ user |-> question,
                                                     bot  |-> greetingResponse.answer ]))
                  /\ req' = [ req EXCEPT ![p] = [ call EXCEPT !.pc = "returned",
                                                  !.response = greetingResponse ] ]
                  /\ lastDone' = MapSet(lastDone, key,
                                        Done(TRUE, question, greetingResponse,
                                             CachedAt(cache, key, greetingResponse), now))
                  /\ UNCHANGED cache
             ELSE /\ conversationHistory' = MapSet(conversationHistory, sessionId, history)
                  /\ cache' = got.cache
                  /\ IF UseCached(got)
                       THEN /\ req' = [ req EXCEPT ![p] =
                                          [ call EXCEPT !.pc = "returned", !.cacheKey = key,
                                                        !.hit = TRUE,
                                                        !.response = got.data ] ]
                            /\ lastDone' = MapSet(lastDone, key,
                                                  Done(TRUE, question, got.data,
                                                       CachedAt(got.cache, key, got.data),
                                                       now))
                       ELSE /\ req' = [ req EXCEPT ![p] =
                                          [ call EXCEPT !.pc = "embedding", !.cacheKey = key,
                                                        !.evicted = (got.cache # cache),
                                                        !.embeddingCalls = 1 ] ]
                            /\ UNCHANGED lastDone
  /\ UNCHANGED << kbVars, config, now, nextSweep, written, lastGet, historyArrays >>

\* a call of processQuery with a question and a session of the model
StartQuery(p) ==
  \E question \in Questions, sessionId \in Sessions, random \in Randoms :
    ProcessQuery(p, question, sessionId, random)

\* a catch block that tries the completion (again) before it gives up
CatchRetry(p, code) ==
  LET r == req[p]
  IN  IF r.generationCalls < 2
        THEN /\ req' = [ req EXCEPT ![p] = [ r EXCEPT !.pc = "generation",
                                                      !.generationCalls = @ + 1 ] ]
             /\ UNCHANGED << conversationHistory, lastDone, cache, written >>
        ELSE /\ req' = [ req EXCEPT ![p] = [ r EXCEPT !.pc = "threw", !.code = code ] ]
             /\ UNCHANGED << conversationHistory, lastDone, cache, written >>

\* the catch block of processQuery: the message goes to the history and is thrown
Catch(p, code) ==
  LET r == req[p]
  IN  /\ conversationHistory' =
           [ conversationHistory EXCEPT ![r.sessionId] =
               PushHistory(@, [ user |-> r.question, bot |-> ErrorMessage(code) ]) ]
      /\ req' = [ req EXCEPT ![p] = [ r EXCEPT !.pc = "threw", !.code = code,
                                               !.error = ErrorMessage(code) ] ]
      /\ lastDone' = MapSet(lastDone, r.cacheKey, Done(FALSE, r.question, Null, NotCached, now))
      /\ UNCHANGED << cache, written >>

\* the embedding provider answers: processQuery from the first await to the
\* second
EmbeddingReturns(p) ==
  /\ req[p].pc = "embedding"
  /\ \E out \in EmbeddingOutcomes :
       IF ~out.ok THEN Catch(p, out.code) /\ UNCHANGED items
       ELSE LET r       == req[p]
                history == conversationHistory[r.sessionId]
                matches == findTopMatches(Store, config, out.embedding, r.question,
                                          config.MAX_CONTEXT_ITEMS)
            IN  /\ req' = [ req EXCEPT ![p] =
                     [ r EXCEPT !.pc = "generation",
                                !.matches = MatchesAfterBuild(Store, matches, r.question),
                                !.isContactFollowup =
                                   IF Len(history) = 0
                                     THEN isContactFollowup(r.question, history)
                                     ELSE ContactFollowupOf[r.question]
                                                           [history[Len(history)].bot],
                                !.generationCalls = 1 ] ]
                /\ items' = ItemsAfterBuild(Store, matches, r.question)
                /\ UNCHANGED << conversationHistory, lastDone, cache, written >>
  /\ UNCHANGED << magnitudes, keywordIndex, intentIndex, categoryIndex,
                  subCategoryIndex, isLoaded, lastLoad, lastFind >>
  /\ UNCHANGED << config, now, nextSweep, lastGet, historyArrays >>

\* the generation provider answers: processQuery from the second await to its
\* return
GenerationReturns(p) ==
  /\ req[p].pc = "generation"
  /\ \E out \in GenerationOutcomes, random \in Randoms :
       IF ~out.ok THEN Catch(p, out.code)
       ELSE LET r         == req[p]
                noContext == Len(r.matches) = 0 \/ r.isContactFollowup
                answer    == IF noContext THEN NoContextAnswer(out.content)
                             ELSE ContextAnswerOf[r.question][out.content][random]
                response  == Response(answer, r.matches, ~noContext,
                                      detectIntent(r.question), FALSE,
                                      isProcedural(r.question), r.isContactFollowup)
                stored    == ShouldCache(r.matches, r.isContactFollowup)
                cached    == IF stored THEN CacheSet(cache, r.cacheKey, response, now)
                             ELSE cache
            IN  /\ conversationHistory' =
                     [ conversationHistory EXCEPT ![r.sessionId] =
                         PushHistory(@, [ user |-> r.question, bot |-> answer ]) ]
                /\ cache' = cached
                /\ written' = IF stored
                                THEN MapSet(written, r.cacheKey,
                                            [ timestamp |-> now, data |-> response ])
                                ELSE written
                /\ req' = [ req EXCEPT ![p] = [ r EXCEPT !.pc = "returned",
                                                         !.response = response,
                                                         !.content = out.content,
                                                         !.random = random ] ]
                /\ lastDone' = MapSet(lastDone, r.cacheKey,
                                      Done(TRUE, r.question, response,
                                           CachedAt(cached, r.cacheKey, response), now))
  /\ UNCHANGED << kbVars, config, now, nextSweep, lastGet, historyArrays >>

Start == \E p \in Slots : StartQuery(p)
Embedded == \E p \in Slots : EmbeddingReturns(p)
Generated == \E p \in Slots : GenerationReturns(p)

NextQuery == Start \/ Embedded \/ Generated \/ Tick \/ Cleanup

SpecQuery == InitChatBot /\ [][NextQuery]_vars

----------------------------------------------------------------------------
(* A long session: greetings one after the other, any number of them       *)

T_hi == << "h","i" >>

\* the greetings of the session
SessionGreetings == { T_bye, T_hi }

\* processQuery is called with a greeting; it returns in the call
Greet ==
  \E p \in Slots, question \in SessionGreetings, random \in Randoms :
    ProcessQuery(p, question, "default", random)

\* the caller is done with a call that has ended: its place is free for the
\* next call
Forget ==
  /\ \E p \in Slots :
       /\ req[p].pc \in { "returned", "threw" }
       /\ req' = [ req EXCEPT ![p] = IdleReq ]
  /\ UNCHANGED << conversationHistory, lastDone, historyArrays, kbVars, config, cacheVars >>

NextSession == Greet \/ Forget

SpecSession == InitChatBot /\ [][NextSession]_vars

----------------------------------------------------------------------------
(* The context builders alone: a knowledge base whose items carry           *)
(* questions, intents, categories and links to related questions, and the   *)
(* ranked matches that findTopMatches can hand to build                     *)

\* a text of n characters
LongText(n) == [ i \in 1..n |-> "x" ]

\* the links of the first item (metadata.related_questions), among them one
\* to no item (9) and a negative one
LinkLists == { << 1, 2, 4, 5, 3 >>, << -1 >>, << 9, 3, 3 >> }

\* the items of the knowledge base, from index 0: a guide with links, two
\* items of one intent (the second with a long question), two items without
\* an intent, and one without an embedding, which no match refers to
ItemGuide(links) ==
  [ Item(Vec(<< 4, 3 >>), T_first \o Sp \o T_we \o Sp \o T_call,
         T_process, T_steps, << T_steps, T_call >>, T_explain_process, "medium")
      EXCEPT !.question = T_steps \o Sp \o LongText(250), !.related_questions = links ]
ItemPay ==
  [ Item(Vec(<< 3, 4 >>), T_we \o Sp \o T_ship, T_Ship, NoText, << T_price >>,
         T_payment_info, "high") EXCEPT !.question = T_price ]
ItemPayLong ==
  [ Item(Vec(<< 3, 5 >>), T_we \o Sp \o T_ship, T_Ship, NoText,
         << >>, T_payment_info, "") EXCEPT !.question = T_ship \o Sp \o LongText(600) ]
ItemPlain ==
  [ Item(Vec(<< 1, 1 >>), T_we, T_process, NoText, << >>, NoText, "")
      EXCEPT !.question = T_we \o Sp \o LongText(250) ]
ItemBare ==
  Item(Vec(<< 1, 2 >>), T_we \o Sp \o T_call, NoText, T_steps, << >>, NoText, "low")
ItemContact ==
  [ Item(NoVec, T_call, T_Ship, NoText, << T_call >>, T_request_contact, "")
      EXCEPT !.question = T_call ]

BuildItems(links) ==
  << ItemGuide(links), ItemPay, ItemPayLong, ItemPlain, ItemBare, ItemContact >>

\* the longest array of matches, and the scores they carry (in hundredths)
MaxMatches == 3
MatchScores == { 60, 70, 85 }

\* what findTopMatches returns: matches of different items, by descending score
IsRanked(matches) ==
  /\ \A m, n \in DOMAIN matches : m # n => matches[m].index # matches[n].index
  /\ \A m, n \in DOMAIN matches : m < n => matches[m].score >= matches[n].score

\* the indexes of the items that have an embedding: the others score -1
WithEmbedding(its) == { n - 1 : n \in { m \in DOMAIN its : its[m].embedding.tag = "array" } }

RankedLists(its) ==
  { matches \in SeqsUpTo([ index : WithEmbedding(its), score : MatchScores ], MaxMatches) :
      IsRanked(matches) }

\* the questions build is called with: a procedural one and one that is not
BuildQuestions == { T_steps \o T_qm, T_ship }

\* the values of MAX_CONTEXT_ITEMS in the environment
ContextItemsEnvs == { Unset, 2 }

InitBuild ==
  /\ \E links \in LinkLists :
       LET r == load(NewStore, ArrayFile(BuildItems(links)))
       IN  /\ items = r.store.items
           /\ magnitudes = r.store.magnitudes
           /\ keywordIndex = r.store.keywordIndex
           /\ intentIndex = r.store.intentIndex
           /\ categoryIndex = r.store.categoryIndex
           /\ subCategoryIndex = r.store.subCategoryIndex
           /\ isLoaded = r.store.isLoaded
           /\ lastLoad = [ called |-> TRUE,
                           class |-> SourceClass(ArrayFile(BuildItems(links))),
                           outcome |-> r.outcome, wasLoaded |-> FALSE ]
  /\ lastFind = NoFind
  /\ config \in { [ DefaultConfig EXCEPT !.MAX_CONTEXT_ITEMS = MaxContextItems(e) ] :
                     e \in ContextItemsEnvs }
  /\ InitCache
  /\ InitQuery

\* findTopMatches has returned the matches of a question
Ranked ==
  /\ ~lastFind.called
  /\ \E matches \in RankedLists(items), question \in BuildQuestions :
       lastFind' = [ NoFind EXCEPT !.called = TRUE, !.query = question,
                                   !.k = MaxMatches, !.result = matches ]
  /\ UNCHANGED << storeVars, lastLoad, config, cacheVars, queryVars >>

\* ContextBuilder.build of the history-aware engine on those matches: the
\* array is sorted in place
BuildHistoryAware ==
  /\ lastFind.called
  /\ ~lastFind.built
  /\ lastFind' = [ lastFind EXCEPT
                     !.built = TRUE,
                     !.prioritized = IF Len(lastFind.result) = 0 THEN lastFind.result
                                     ELSE prioritizeMatches(Store, lastFind.result, FALSE),
                     !.context = HistoryAwareBuild(Store, lastFind.result),
                     !.builder = "history-aware" ]
  /\ UNCHANGED << storeVars, lastLoad, config, cacheVars, queryVars >>

NextBuild == Ranked \/ Build \/ BuildHistoryAware \/ TakeMatches

SpecBuild == InitBuild /\ [][NextBuild]_vars

----------------------------------------------------------------------------
(* The history-aware ChatBot: the engine whose processQuery sends the      *)
(* messages of the session along with the question. Its QueryCache, its    *)
(* GREETING_PATTERNS, generateGreeting and cleanupFormattingArtifacts are   *)
(* those above                                                             *)

MAX_HISTORY_MESSAGES == 20

HistoryAwareApology ==
  << "I"," ","a","p","o","l","o","g","i","z","e",","," ","b","u","t"," ","I",
     " ","c","o","u","l","d","n","'","t"," ","g","e","n","e","r","a","t","e",
     " ","a"," ","r","e","s","p","o","n","s","e"," ","a","t"," ","t","h","i",
     "s"," ","t","i","m","e","." >>

HistoryAwareNoContext ==
  << "I"," ","d","o","n","'","t"," ","h","a","v","e"," ","s","p","e","c","i",
     "f","i","c"," ","i","n","f","o","r","m","a","t","i","o","n"," ","a","b",
     "o","u","t"," ","t","h","a","t"," ","o","n"," ","h","a","n","d","."," ",
     "F","o","r"," ","d","e","t","a","i","l","e","d"," ","o","r"," ","s","p",
     "e","c","i","a","l","i","z","e","d"," ","i","n","q","u","i","r","i","e",
     "s",","," ","p","l","e","a","s","e"," ","c","o","n","t","a","c","t"," ",
     "o","u","r"," ","t","e","a","m"," ","d","i","r","e","c","t","l","y"," ",
     "a","t"," ","+","4","4"," ","(","0",")","1","2","1"," ","7","6","5"," ",
     "4","1","6","6","."," ","T","h","e","y","'","l","l"," ","b","e"," ","h",
     "a","p","p","y"," ","t","o"," ","a","s","s","i","s","t"," ","y","o","u",
     "." >>

DefaultContact ==
  << " ","F","o","r"," ","m","o","r","e"," ","i","n","f","o","r","m","a","t",
     "i","o","n",","," ","p","l","e","a","s","e"," ","c","o","n","t","a","c",
     "t"," ","u","s"," ","a","t"," ","+","4","4"," ","(","0",")","1","2","1",
     " ","7","6","5"," ","4","1","6","6","." >>

T_plus44 ==
  << "+","4","4" >>

T_sales_email ==
  << "s","a","l","e","s","@","j","e","a","v","o","n","s","e","u","r","o","t",
     "i","r",".","c","o",".","u","k" >>

T_internal_server_error ==
  << "I","n","t","e","r","n","a","l"," ","s","e","r","v","e","r"," ","e","r",
     "r","o","r" >>

T_contact_info ==
  << "c","o","n","t","a","c","t","_","i","n","f","o" >>

ContactTargets ==
  { << "c","o","n","t","a","c","t" >>,
    << "s","p","e","a","k"," ","t","o" >>,
    << "c","a","l","l" >>,
    << "e","m","a","i","l" >>,
    << "r","e","a","c","h" >> }

ContactTopics ==
  { << "a","b","o","u","t" >>,
    << "f","o","r" >> }

ContactDetails ==
  { << "d","e","t","a","i","l","s" >>,
    << "i","n","f","o" >>,
    << "i","n","f","o","r","m","a","t","i","o","n" >> }

UnsureWords ==
  { << "u","n","s","u","r","e" >>,
    << "n","o","t"," ","s","u","r","e" >>,
    << "n","o"," ","i","n","f","o","r","m","a","t","i","o","n" >>,
    << "s","o","r","r","y" >>,
    << "a","p","o","l","o","g","i","z","e" >> }

ContactFields ==
  { << "c","o","n","t","a","c","t" >>,
    << "p","h","o","n","e" >>,
    << "e","m","a","i","l" >> }

T_who_ == << "w","h","o"," " >>
T_to_ == << "t","o"," " >>
T_phone == << "p","h","o","n","e" >>
T_number == << "n","u","m","b","e","r" >>
T_email == << "e","m","a","i","l" >>
T_address == << "a","d","d","r","e","s","s" >>
T_who == << "w","h","o" >>
T_speak == << "s","p","e","a","k" >>
T_get == << "g","e","t" >>
T_in == << "i","n" >>
T_touch == << "t","o","u","c","h" >>
T_don == << "d","o","n" >>
T_t_know == << "t"," ","k","n","o","w" >>

\* CONTACT_PATTERNS, in their order (flag i: on the lower-cased message)
CONTACT_PATTERNS(s) ==
  << LitAny(s, DotStar(s, LitAny(s, Opt(s, Lit(s, Positions(s), T_who_), T_to_),
                                 ContactTargets)), ContactTopics) # {},
     LitAny(s, DotStar(s, Lit(s, Positions(s), T_contact)), ContactDetails) # {},
     Lit(s, DotStar(s, Lit(s, Positions(s), T_phone)), T_number) # {},
     Lit(s, DotStar(s, Lit(s, Positions(s), T_email)), T_address) # {},
     Lit(s, DotStar(s, Lit(s, Positions(s), T_who)), T_contact) # {},
     Lit(s, DotStar(s, Lit(s, Positions(s), T_speak)), T_to) # {},
     Lit(s, DotStar(s, Lit(s, DotStar(s, Lit(s, Positions(s), T_get)), T_in)),
         T_touch) # {} >>

\* PatternMatcher.isContactQuery of this engine
HistoryAwareIsContactQuery(message) ==
  LET patterns == CONTACT_PATTERNS(toLowerCase(message))
  IN  \E i \in DOMAIN patterns : patterns[i]

\* /don'?t know|unsure|not sure|no information|sorry|apologize/i.test(answer)
UnsurePattern(s) ==
  Lit(s, Opt(s, Lit(s, Positions(s), T_don), << "'" >>), T_t_know)
    \cup LitAny(s, Positions(s), UnsureWords) # {}

SoundsUnsure(answer) == UnsurePattern(toLowerCase(answer))

\* String.prototype.includes
Includes(s, part) == Lit(s, Positions(s), part) # {}

\* a match of this engine: the item (by its index) and its score
HistoryAwareMatch(index, score) == [ index |-> index, score |-> score ]

\* ContactHandler.shouldIncludeContact
shouldIncludeContact(question, matches, answer) ==
  IF isGreeting(question) THEN FALSE
  ELSE \/ HistoryAwareIsContactQuery(question)
       \/ Len(matches) = 0
       \/ matches[1].score < 30
       \/ SoundsUnsure(answer)

\* the test of matches.find in formatContactInfo (an item of the model has no
\* Q and no question: the pattern is tried on the empty text)
IsContactMatch(item) ==
  \/ item.intent = T_contact_info
  \/ \E i \in DOMAIN item.keywords : item.keywords[i] = T_contact
  \/ LitAny(NoText, Positions(NoText), ContactFields) # {}

\* the places in matches of the items that pass the test
ContactMatches(st, matches) ==
  { i \in DOMAIN matches : IsContactMatch(st.items[matches[i].index + 1]) }

\* contactMatch.item.A || contactMatch.item.answer || '' of the first of them
ContactAnswer(st, matches, found) ==
  st.items[matches[CHOOSE i \in found : \A j \in found : i <= j].index + 1].answer

\* the fallback of formatContactInfo: the default contact, unless the answer
\* has a number or the address already
WithDefaultContact(answer) ==
  IF ~Includes(answer, T_plus44) /\ ~Includes(answer, T_sales_email)
    THEN answer \o DefaultContact
    ELSE answer

\* ContactHandler.formatContactInfo
formatContactInfo(st, matches, answer) ==
  IF ContactMatches(st, matches) # {}
       /\ ~Includes(answer, ContactAnswer(st, matches, ContactMatches(st, matches)))
    THEN answer \o << "\n", "\n" >>
                \o ContactAnswer(st, matches, ContactMatches(st, matches))
    ELSE WithDefaultContact(answer)

\* if (ContactHandler.shouldIncludeContact(...)) answer = formatContactInfo(...)
WithContact(st, question, matches, answer) ==
  IF shouldIncludeContact(question, matches, answer)
    THEN formatContactInfo(st, matches, answer)
    ELSE answer

\* the answer processQuery makes of the content of a completion (empty when
\* there is none)
HistoryAwareAnswer(st, question, matches, content) ==
  WithContact(st, question, matches,
              cleanupFormattingArtifacts(IF content = NoText THEN HistoryAwareApology
                                         ELSE content))

\* the payload of this engine, without detected_intent and related_questions
HistoryAwareResponse(answer, matches, contextUsed, greeting) ==
  [ answer |-> answer, matches |-> matches, context_used |-> contextUsed,
    is_greeting |-> greeting ]

\* the lists findTopMatches may hand back for the embedding of a question:
\* none, one item, and two items of one score
HistoryAwareMatchLists ==
  { << >>,
    << HistoryAwareMatch(0, 90) >>,
    << HistoryAwareMatch(1, 80), HistoryAwareMatch(0, 80) >> }

Message(role, content) == [ role |-> role, content |-> content ]

\* Array.prototype.slice(-n), n > 0
SliceLast(s, n) == IF Len(s) > n THEN SubSeq(s, Len(s) - n + 1, Len(s)) ELSE s

\* history.push(user, assistant) on the array that the call holds
PushMessages(arrays, id, question, answer) ==
  [ arrays EXCEPT ![id] = @ \o << Message("user", question),
                                  Message("assistant", answer) >> ]

\* history.slice(-CONFIG.MAX_HISTORY_MESSAGES): a new array
StoredCopy(arrays, id) == Append(arrays, SliceLast(arrays[id], MAX_HISTORY_MESSAGES))

\* this.conversationHistory.get(sessionId) || []: the arrays after the line,
\* with a new empty array when the session has none
ArraysAtStart(sessionId) ==
  IF sessionId \in DOMAIN conversationHistory THEN historyArrays
  ELSE Append(historyArrays, << >>)

\* the array that the local history refers to
HistoryAtStart(sessionId) ==
  IF sessionId \in DOMAIN conversationHistory THEN conversationHistory[sessionId]
  ELSE Len(historyArrays) + 1

\* const cached = history.length === 0 ? this.cache.get(cacheKey) : null
HistoryAwareLookup(history, c, key, t) ==
  IF Len(history) = 0 THEN CacheGet(c, key, t)
  ELSE [ cache |-> c, hit |-> FALSE, data |-> Null ]

\* if (matches.length > 0 && history.length === 0) this.cache.set(...), where
\* history is the array after the push
HistoryAwareShouldCache(matches, history) == Len(matches) > 0 /\ Len(history) = 0

\* the items of that knowledge base, which load keeps as they are in the file
LoadedItems == [ items |-> QueryItems ]

\* HistoryAwareAnswer on the questions, match lists and contents of the model
HistoryAwareAnswerOf ==
  [ q \in Questions |->
      [ m \in { prioritizeMatches(LoadedItems, f, FALSE) : f \in HistoryAwareMatchLists } |->
          [ c \in Contents |-> HistoryAwareAnswer(LoadedItems, q, m, c) ] ] ]

HistorySessions == { "default", "other" }

\* the history-aware processQuery(question, sessionId), up to its first await
\* or its return
HistoryAwareStart(p) ==
  /\ req[p].pc = "idle"
  /\ \A q \in Slots : q < p => req[q].pc # "idle"
  /\ \E question \in Questions, sessionId \in HistorySessions, random \in Randoms :
       LET arrays  == ArraysAtStart(sessionId)
           id      == HistoryAtStart(sessionId)
           key     == CacheKey(question)
           got     == HistoryAwareLookup(arrays[id], cache, key, now)
           call    == [ IdleReq EXCEPT !.question = question, !.sessionId = sessionId,
                                       !.startedAt = now, !.history = id,
                                       !.first = (Len(arrays[id]) = 0),
                                       !.alongside =
                                          { q \in Slots :
                                              req[q].pc \in {"embedding", "generation"} },
                                       !.prev = IF key \in DOMAIN lastDone
                                                  THEN lastDone[key] ELSE NoPrev ]
           answer  == generateGreeting(question, random)
           greetingResponse == HistoryAwareResponse(answer, << >>, FALSE, TRUE)
       IN  IF isGreeting(question)
             THEN /\ historyArrays' =
                       StoredCopy(PushMessages(arrays, id, question, answer), id)
                  /\ conversationHistory' =
                       MapSet(conversationHistory, sessionId, Len(arrays) + 1)
                  /\ req' = [ req EXCEPT ![p] = [ call EXCEPT !.pc = "returned",
                                                  !.response = greetingResponse ] ]
                  /\ lastDone' = MapSet(lastDone, key,
                                        Done(TRUE, question, greetingResponse,
                                             CachedAt(cache, key, greetingResponse), now))
                  /\ UNCHANGED cache
             ELSE /\ historyArrays' = arrays
                  /\ cache' = got.cache
                  /\ UNCHANGED conversationHistory
                  /\ IF UseCached(got)
                       THEN /\ req' = [ req EXCEPT ![p] =
                                          [ call EXCEPT !.pc = "returned", !.cacheKey = key,
                                                        !.hit = TRUE,
                                                        !.cachedAt =
                                                           CachedAt(got.cache, key, got.data),
                                                        !.response = got.data ] ]
                            /\ lastDone' = MapSet(lastDone, key,
                                                  Done(TRUE, question, got.data,
                                                       CachedAt(got.cache, key, got.data),
                                                       now))
                       ELSE /\ req' = [ req EXCEPT ![p] =
                                          [ call EXCEPT !.pc = "embedding", !.cacheKey = key,
                                                        !.evicted = (got.cache # cache),
                                                        !.embeddingCalls = 1 ] ]
                            /\ UNCHANGED lastDone
  /\ UNCHANGED << kbVars, config, now, nextSweep, written, lastGet >>

\* the catch block of the history-aware processQuery: one message is thrown
\* whatever the failure, and the history is left alone
HistoryAwareCatch(p, code) ==
  LET r == req[p]
  IN  /\ req' = [ req EXCEPT ![p] = [ r EXCEPT !.pc = "threw", !.code = code,
                                               !.error = T_internal_server_error ] ]
      /\ lastDone' = MapSet(lastDone, r.cacheKey, Done(FALSE, r.question, Null, NotCached, now))
      /\ UNCHANGED << conversationHistory, historyArrays, cache, written >>

\* the embedding provider answers: from the first await to the second, or to
\* the return of the fixed answer when there is no context (the context text
\* is empty exactly when there is no match)
HistoryAwareEmbeddingReturns(p) ==
  /\ req[p].pc = "embedding"
  /\ \E out \in EmbeddingOutcomes, found \in HistoryAwareMatchLists :
       IF ~out.ok THEN HistoryAwareCatch(p, out.code)
       ELSE LET r       == req[p]
                matches == prioritizeMatches(Store, found, FALSE)
                noContextResponse ==
                  HistoryAwareResponse(HistoryAwareNoContext, << >>, FALSE, FALSE)
            IN  IF Len(matches) = 0
                  THEN /\ historyArrays' =
                            StoredCopy(PushMessages(historyArrays, r.history, r.question,
                                                    HistoryAwareNoContext), r.history)
                       /\ conversationHistory' =
                            MapSet(conversationHistory, r.sessionId, Len(historyArrays) + 1)
                       /\ req' = [ req EXCEPT ![p] =
                                     [ r EXCEPT !.pc = "returned",
                                                !.response = noContextResponse ] ]
                       /\ lastDone' = MapSet(lastDone, r.cacheKey,
                                             Done(TRUE, r.question, noContextResponse,
                                                  NotCached, now))
                       /\ UNCHANGED << cache, written >>
                  ELSE /\ req' = [ req EXCEPT ![p] =
                                     [ r EXCEPT !.pc = "generation", !.matches = matches,
                                                !.generationCalls = 1 ] ]
                       /\ UNCHANGED << conversationHistory, historyArrays, lastDone,
                                       cache, written >>
  /\ UNCHANGED << kbVars, config, now, nextSweep, lastGet >>

\* the generation provider answers: from the second await to the return
HistoryAwareGenerationReturns(p) ==
  /\ req[p].pc = "generation"
  /\ \E out \in GenerationOutcomes :
       IF ~out.ok THEN HistoryAwareCatch(p, out.code)
       ELSE LET r        == req[p]
                answer   == HistoryAwareAnswerOf[r.question][r.matches][out.content]
                response == HistoryAwareResponse(answer, r.matches, TRUE, FALSE)
                pushed   == PushMessages(historyArrays, r.history, r.question, answer)
                stored   == HistoryAwareShouldCache(r.matches, pushed[r.history])
                cached   == IF stored THEN CacheSet(cache, r.cacheKey, response, now)
                            ELSE cache
            IN  /\ historyArrays' = StoredCopy(pushed, r.history)
                /\ conversationHistory' =
                     MapSet(conversationHistory, r.sessionId, Len(historyArrays) + 1)
                /\ cache' = cached
                /\ written' = IF stored
                                THEN MapSet(written, r.cacheKey,
                                            [ timestamp |-> now, data |-> response ])
                                ELSE written
                /\ req' = [ req EXCEPT ![p] =
                              [ r EXCEPT !.pc = "returned", !.response = response,
                                         !.content = out.content,
                                         !.cachedAt = CachedAt(cached, r.cacheKey, response) ] ]
                /\ lastDone' = MapSet(lastDone, r.cacheKey,
                                      Done(TRUE, r.question, response,
                                           CachedAt(cached, r.cacheKey, response), now))
  /\ UNCHANGED << kbVars, config, now, nextSweep, lastGet >>

HistoryStart == \E p \in Slots : HistoryAwareStart(p)
HistoryEmbedded == \E p \in Slots : HistoryAwareEmbeddingReturns(p)
HistoryGenerated == \E p \in Slots : HistoryAwareGenerationReturns(p)

NextHistoryAware == HistoryStart \/ HistoryEmbedded \/ HistoryGenerated \/ Tick \/ Cleanup

SpecHistoryAware == InitChatBot /\ [][NextHistoryAware]_vars

----------------------------------------------------------------------------
(* Properties of processQuery and the cache                                *)

\* the entry under key k is not the same before and after the step
EntryChanged(k) ==
  IF k \in DOMAIN cache /\ k \in DOMAIN cache' THEN cache'[k] # cache[k]
  ELSE k \in DOMAIN cache \/ k \in DOMAIN cache'

\* the call p has ended without a payload to cache: in an error, or answered
\* afresh with no match
EndedUnmatched(p) ==
  \/ req[p].pc = "threw"
  \/ /\ req[p].pc = "returned"
     /\ ~req[p].hit
     /\ ~req[p].response.is_greeting
     /\ Len(req[p].response.matches) = 0

\* C7 as stated: a query that ends in an error or with zero matches has left
\* the cache exactly as it was, its own lookup included
C7_Original == \A p \in Slots : EndedUnmatched(p) => ~req[p].evicted

\* C7: an entry is added to the cache or replaced only by the step in which a
\* call returns after both providers answered and findTopMatches gave at
\* least one match, and the entry is that call's payload under its key; a
\* step of any other call (one that ends with zero matches or in an error
\* included) adds and replaces nothing, and the only entries that are ever
\* removed are entries older than CACHE_TTL
C7_WritesOnlyMatchedAnswers ==
  [][ \A k \in DOMAIN cache \cup DOMAIN cache' :
        EntryChanged(k) =>
          IF k \in DOMAIN cache'
            THEN \E p \in Slots :
                   /\ req[p].pc = "generation"
                   /\ req'[p].pc = "returned"
                   /\ req[p].cacheKey = k
                   /\ Len(req'[p].response.matches) > 0
                   /\ cache'[k].data = req'[p].response
            ELSE now - cache[k].timestamp > CACHE_TTL ]_vars

\* a call has ended in an error after another call with the same key was
\* answered and cached, and the cache still holds the payload of that call
C7_Witness ==
  \E p, q \in Slots :
    /\ req[p].pc = "threw"
    /\ req[q].pc = "returned" /\ ~req[q].hit /\ Len(req[q].response.matches) > 0
    /\ req[p].cacheKey = req[q].cacheKey
    /\ req[q].cacheKey \in DOMAIN lastDone /\ ~lastDone[req[q].cacheKey].returned
    /\ req[q].cacheKey \in DOMAIN cache
    /\ cache[req[q].cacheKey].data = req[q].response

SameLetter(c, d) ==
  c = d \/ \E i \in DOMAIN LowerLetters : {c, d} = {LowerLetters[i], UpperLetters[i]}

\* two texts differ only in letter case and in the whitespace around them:
\* each is a run of whitespace, a core and a run of whitespace, and the cores
\* are the same letter by letter
SameUpToCaseAndSpace(a, b) ==
  \E i \in 1..(Len(a) + 1), j \in 1..(Len(b) + 1) :
    \E n \in 0..Len(a) :
      /\ i + n - 1 <= Len(a) /\ j + n - 1 <= Len(b)
      /\ \A k \in 1..(i - 1) : IsSpace(a[k])
      /\ \A k \in (i + n)..Len(a) : IsSpace(a[k])
      /\ \A k \in 1..(j - 1) : IsSpace(b[k])
      /\ \A k \in (j + n)..Len(b) : IsSpace(b[k])
      /\ \A m \in 0..(n - 1) : SameLetter(a[i + m], b[j + m])

\* the call p has looked its question up in the cache
LookedUp(r) == r.pc # "idle" /\ ~r.response.is_greeting

\* C9: two calls have the same cache key exactly when their questions differ
\* only in letter case and surrounding whitespace; a step of a call changes
\* no entry but the one under the normal form of its question; and a call
\* answered from the cache returns the data of that entry
C9_KeyIsNormalisedText ==
  [][ /\ \A p, q \in Slots :
           LookedUp(req'[p]) /\ LookedUp(req'[q])
             => ( SameUpToCaseAndSpace(req'[p].question, req'[q].question)
                    <=> req'[p].cacheKey = req'[q].cacheKey )
      /\ \A p \in Slots :
           req'[p] # req[p]
             => \A k \in DOMAIN cache \cup DOMAIN cache' :
                  EntryChanged(k) => SameUpToCaseAndSpace(k, req'[p].question)
      /\ \A p \in Slots :
           req[p].pc = "idle" /\ req'[p].hit
             => \E k \in DOMAIN cache :
                  /\ SameUpToCaseAndSpace(k, req'[p].question)
                  /\ req'[p].response = cache[k].data ]_vars

\* a call has been answered from the entry that a call with a question of
\* another letter case and other surrounding whitespace has written
C9_Witness ==
  \E p, q \in Slots :
    /\ req[q].pc = "returned" /\ ~req[q].hit /\ Len(req[q].response.matches) > 0
    /\ req[p].pc = "returned" /\ req[p].hit
    /\ req[p].question # req[q].question
    /\ toLowerCase(req[p].question) # toLowerCase(req[q].question)
    /\ trim(req[p].question) # trim(req[q].question)
    /\ req[p].response = req[q].response

\* C10: the step in which a call returns a payload with at least one match
\* that is no contact follow-up leaves under its key an entry with this
\* payload and the current time, whatever was there, and leaves every other
\* entry as it was; so every entry of the cache is the one most recently set
\* under its key
C10_LastWriteWins ==
  [][ /\ \A p \in Slots :
           ( /\ req[p].pc = "generation"
             /\ req'[p].pc = "returned"
             /\ Len(req'[p].response.matches) > 0
             /\ ~req'[p].response.is_contact_followup )
           => /\ DOMAIN cache' = DOMAIN cache \cup {req[p].cacheKey}
              /\ cache'[req[p].cacheKey] =
                   [ timestamp |-> now, data |-> req'[p].response ]
              /\ \A k \in DOMAIN cache \ {req[p].cacheKey} : cache'[k] = cache[k]
      /\ \A k \in DOMAIN cache' : cache'[k] = written'[k] ]_vars

\* two calls with the same key were in flight together, both were answered
\* with matches, with different answers, and the cache holds under the key
\* the payload of one of them, set later than the calls were started
C10_Witness ==
  \E p, q \in Slots :
    /\ p # q
    /\ req[p].cacheKey = req[q].cacheKey
    /\ req[p].pc = "returned" /\ ~req[p].hit /\ Len(req[p].response.matches) > 0
    /\ req[q].pc = "returned" /\ ~req[q].hit /\ Len(req[q].response.matches) > 0
    /\ req[p].startedAt = 0 /\ req[q].startedAt = 0
    /\ req[p].response # req[q].response
    /\ req[q].cacheKey \in DOMAIN cache
    /\ cache[req[q].cacheKey] = [ timestamp |-> CACHE_TTL, data |-> req[q].response ]

\* the payload of a call of processQuery that runs alone on a new ChatBot (no
\* history, nothing cached), when the embedding gives these matches and the
\* completion this content
RunAlone(question, matches, content, random) ==
  Response(IF Len(matches) = 0 THEN NoContextAnswer(content)
           ELSE ContextAnswerOf[question][content][random],
           matches, Len(matches) > 0, detectIntent(question), FALSE,
           isProcedural(question), FALSE)

\* the calls p and q were in flight at the same time
InFlightTogether(p, q) == q \in req[p].alongside \/ p \in req[q].alongside

\* C11 as stated: a call that was in flight together with a call of another
\* cache key returns the payload, and writes the cache entry, that it would
\* have returned and written had it run alone
C11_Original ==
  \A p, q \in Slots :
    ( /\ p # q
      /\ InFlightTogether(p, q)
      /\ LookedUp(req[p]) /\ LookedUp(req[q])
      /\ req[p].cacheKey # req[q].cacheKey
      /\ req[p].pc = "returned" )
    => /\ req[p].response =
            RunAlone(req[p].question, req[p].matches, req[p].content, req[p].random)
       /\ IF Len(req[p].matches) > 0
            THEN /\ req[p].cacheKey \in DOMAIN written
                 /\ written[req[p].cacheKey].data = req[p].response
            ELSE req[p].cacheKey \notin DOMAIN written

\* the kind of failure that a provider's error code stands for
FailureKind(code) ==
  CASE code = "insufficient_quota"  -> "quota exhausted"
    [] code = "rate_limit_exceeded" -> "rate limited"
    [] OTHER                        -> "generic unavailable"

\* C12: a call in which a provider call failed has thrown and has no payload;
\* what it throws is one of three messages, and two failed calls throw the
\* same message exactly when their providers' error codes are of the same
\* kind (quota exhausted, rate limited, generic unavailable)
C12_FailureKinds ==
  /\ \A p \in Slots :
       /\ req[p].code # "" <=> req[p].pc = "threw"
       /\ req[p].pc = "threw" =>
            /\ req[p].response = Null
            /\ req[p].error \in { ErrorQuota, ErrorRate, ErrorGeneric }
            /\ req[p].error = ErrorQuota <=> FailureKind(req[p].code) = "quota exhausted"
            /\ req[p].error = ErrorRate <=> FailureKind(req[p].code) = "rate limited"
  /\ \A p, q \in Slots :
       req[p].pc = "threw" /\ req[q].pc = "threw"
         => ( req[p].error = req[q].error
                <=> FailureKind(req[p].code) = FailureKind(req[q].code) )

\* the embedding call of one query has failed for quota and the generation
\* call of another for rate, and the two have thrown different messages
C12_Witness ==
  \E p, q \in Slots :
    /\ req[p].pc = "threw" /\ req[p].generationCalls = 0
    /\ req[p].code = "insufficient_quota"
    /\ req[q].pc = "threw" /\ req[q].generationCalls = 1
    /\ req[q].code = "rate_limit_exceeded"
    /\ req[p].error # req[q].error

----------------------------------------------------------------------------
(* Properties of the order of the matches                                  *)

\* the place (from 1) of item i in the matches, 0 when it is not among them
PlaceOf(matches, i) ==
  IF \E n \in DOMAIN matches : matches[n].index + 1 = i
    THEN CHOOSE n \in DOMAIN matches : matches[n].index + 1 = i
    ELSE 0

\* the answer has one of the words step, first, next, then, finally
AnswerHasMarker(item) ==
  \E w \in MarkerWords : TestWords(toLowerCase(item.answer), {w})

----------------------------------------------------------------------------
(* Properties of the indexes                                               *)

\* the keys that an item carries in each of the four indexes
KeywordKeys(item) ==
  { trim(toLowerCase(item.keywords[n])) : n \in DOMAIN item.keywords }
IntentKeys(item) ==
  IF item.intent = NoText THEN {} ELSE { trim(toLowerCase(item.intent)) }
CategoryKeys(item) ==
  { trim(toLowerCase(IF item.category = NoText THEN T_uncategorized ELSE item.category)) }
SubCategoryKeys(item) ==
  { trim(toLowerCase(IF item.sub_category = NoText THEN T_general
                     ELSE item.sub_category)) }

\* the positions (from 0) of the current items that carry the key
Carriers(key, carried) ==
  { i - 1 : i \in { n \in DOMAIN items : key \in carried[n] } }

\* an index describes the current items: it has the keys the items carry and
\* no other, and under each key the positions of the items that carry it
Describes(index, carried) ==
  /\ DOMAIN index = UNION { carried[n] : n \in DOMAIN items }
  /\ \A key \in DOMAIN index : Range(index[key]) = Carriers(key, carried)

\* C15 as stated: after any sequence of load calls the four indexes describe
\* exactly the current items
C15_Original ==
  /\ Describes(keywordIndex, [ n \in DOMAIN items |-> KeywordKeys(items[n]) ])
  /\ Describes(intentIndex, [ n \in DOMAIN items |-> IntentKeys(items[n]) ])
  /\ Describes(categoryIndex, [ n \in DOMAIN items |-> CategoryKeys(items[n]) ])
  /\ Describes(subCategoryIndex, [ n \in DOMAIN items |-> SubCategoryKeys(items[n]) ])

----------------------------------------------------------------------------
(* Properties of the boosts                                                *)

\* the text a occurs in the text b
OccursIn(a, b) ==
  \E off \in 0..(Len(b) - Len(a)) : \A n \in 1..Len(a) : b[off + n] = a[n]

\* how many of the keywords of the item contain a token of the query or are
\* contained in one
MatchCount(item, query) ==
  LET tokens == extractQueryWords(query)
  IN  Cardinality({ n \in DOMAIN item.keywords :
                      \E t \in DOMAIN tokens :
                         \/ OccursIn(toLowerCase(item.keywords[n]), tokens[t])
                         \/ OccursIn(tokens[t], toLowerCase(item.keywords[n])) })

\* C16: for an item with a base score above 0 the keyword boost is
\* min(0.3, matchCount x KEYWORD_BOOST), the total is the sum of the five
\* components, and the score is min(1.0, baseScore + total)
C16_BoostArithmetic ==
  lastFind.called =>
    \A i \in DOMAIN lastFind.scores :
      LET m == lastFind.scores[i]
          count == MatchCount(items[i], lastFind.query)
      IN  m.baseScore > 0 =>
            /\ m.boosts.keyword = IF count * KEYWORD_BOOST < 30 THEN count * KEYWORD_BOOST
                                  ELSE 30
            /\ m.boosts.total = m.boosts.keyword + m.boosts.intent + m.boosts.category
                                  + m.boosts.procedural + m.boosts.priority
            /\ m.score = IF m.baseScore + m.boosts.total < Scale
                           THEN m.baseScore + m.boosts.total ELSE Scale

\* an item of priority high with two matching keywords and no other boost
\* has the score baseScore + 0.2 + 0.1, below 1.0
C16_Witness ==
  /\ lastFind.called
  /\ \E i \in DOMAIN lastFind.scores :
       LET m == lastFind.scores[i]
       IN  /\ m.baseScore > 0
           /\ items[i].priority = "high"
           /\ MatchCount(items[i], lastFind.query) = 2
           /\ m.score = m.baseScore + 20 + 10
           /\ m.score < Scale

\* C17: an item whose base score is at most 0 gets no boost, its score is the
\* base score, and it is not among the matches, whatever the threshold
C17_NoBoostAtOrBelowZero ==
  lastFind.called =>
    \A i \in DOMAIN lastFind.scores :
      lastFind.scores[i].baseScore <= 0 =>
        /\ lastFind.scores[i].boosts = NoBoosts
        /\ lastFind.scores[i].score = lastFind.scores[i].baseScore
        /\ lastFind.scores[i].score <= config.SIMILARITY_THRESHOLD
        /\ \A n \in DOMAIN lastFind.result : lastFind.result[n].index + 1 # i

\* an item with an embedding at a right angle to the query's (base score 0)
\* has four keywords that match the query, a priority, and an answer and a query that are
\* procedural, and is not among the matches of a call with room for it
C17_Witness ==
  /\ lastFind.called
  /\ \E i \in DOMAIN lastFind.scores :
       /\ items[i].embedding.tag = "array"
       /\ Len(items[i].embedding.vec) = Len(lastFind.queryEmbedding.vec)
       /\ lastFind.scores[i].baseScore = 0
       /\ MatchCount(items[i], lastFind.query) = 4
       /\ items[i].priority = "low"
       /\ isProceduralQuery(lastFind.query)
       /\ lastFind.k > Len(lastFind.result)
       /\ \A n \in DOMAIN lastFind.result : lastFind.result[n].index + 1 # i

\* the weight of a priority: high 3, medium 2, low and absent 1
WeightOf(priority) ==
  IF priority = "high" THEN 3 ELSE IF priority = "medium" THEN 2 ELSE 1

\* C18: in the order that prioritizeMatches produces, of two matches the
\* first has procedural markers and the second has none, under a procedural
\* query; or else the first has the higher score; or else the scores are
\* equal and the weight of the first's priority is not the lower one. The
\* matches are those findTopMatches returned
C18_PrioritizedOrder ==
  lastFind.built =>
    /\ Len(lastFind.prioritized) = Len(lastFind.result)
    /\ Range(lastFind.prioritized) = Range(lastFind.result)
    /\ \A m, n \in DOMAIN lastFind.prioritized :
         m < n =>
           LET a == lastFind.prioritized[m]
               b == lastFind.prioritized[n]
               procedural == isProcedural(lastFind.query)
               aMarked == AnswerHasMarker(items[a.index + 1])
               bMarked == AnswerHasMarker(items[b.index + 1])
           IN  \/ procedural /\ aMarked /\ ~bMarked
               \/ /\ ~procedural \/ aMarked = bMarked
                  /\ \/ a.score > b.score
                     \/ /\ a.score = b.score
                        /\ WeightOf(items[a.index + 1].priority)
                             >= WeightOf(items[b.index + 1].priority)

\* of two matches with the same score under a query that is not procedural,
\* the one findTopMatches returned second is first, by its priority
C18_Witness ==
  /\ lastFind.built
  /\ ~isProcedural(lastFind.query)
  /\ Len(lastFind.result) = 2
  /\ lastFind.prioritized = << lastFind.result[2], lastFind.result[1] >>
  /\ lastFind.result[1].score = lastFind.result[2].score
  /\ WeightOf(items[lastFind.result[2].index + 1].priority)
       > WeightOf(items[lastFind.result[1].index + 1].priority)

----------------------------------------------------------------------------
(* Properties of the cache of the history-aware ChatBot                    *)

\* a call that was the first of its session, was scored with at least one
\* match and returned the answer made of a completion
FirstMatchedAnswer(p) ==
  /\ req[p].pc = "returned"
  /\ req[p].first
  /\ ~req[p].hit
  /\ Len(req[p].matches) > 0

\* C19 as stated: when a query that is the first of its session has been
\* scored with at least one match and no provider failed, the cache holds
\* an entry with its payload under its normalised text as the call returns
C19_Original ==
  \A p \in Slots : FirstMatchedAnswer(p) => req[p].cachedAt # NotCached

\* the history-aware processQuery writes no entry at all
HistoryAwareCacheEmpty == cache = EmptyMap /\ written = EmptyMap

----------------------------------------------------------------------------
(* Properties of the sweep of the cache                                    *)

\* the step is a cleanup pass
SweepStep == nextSweep' # nextSweep

\* what the last get would have returned had no entry ever been removed: the
\* get is made on the map of every entry set, at the time it was made
GetWithoutSweeps == CacheGet(written, lastGet.key, lastGet.at)

\* C20: a cleanup pass removes the entries with now - timestamp > CACHE_TTL,
\* removes no other entry and changes none; and every get returns what it
\* would return if no cleanup pass had run before it
C20_SweepIsHousekeeping ==
  /\ [][ SweepStep =>
           /\ DOMAIN cache' = { k \in DOMAIN cache : now - cache[k].timestamp <= CACHE_TTL }
           /\ \A k \in DOMAIN cache' : cache'[k] = cache[k] ]_vars
  /\ [](lastGet.called => /\ lastGet.hit = GetWithoutSweeps.hit
                          /\ lastGet.data = GetWithoutSweeps.data)

\* a pass has run that removed the entry of one key and kept an entry whose
\* age is exactly the TTL, and a get of the removed key has missed after it
C20_Witness ==
  /\ nextSweep > CLEANUP_INTERVAL
  /\ lastGet.called
  /\ ~lastGet.hit
  /\ lastGet.key \in DOMAIN written
  /\ lastGet.key \notin DOMAIN cache
  /\ \E k \in DOMAIN cache : now - cache[k].timestamp = CACHE_TTL


----------------------------------------------------------------------------
(* Properties of the provider calls                                        *)

\* the call has ended: it returned or it threw
Ended(r) == r.pc \in { "returned", "threw" }

\* C21: a call of processQuery invokes the embedding provider at most once
\* and the generation provider at most once; a call whose embedding fails
\* ends without a generation call; and a call that has ended invokes nothing
C21_NoRetry ==
  [][ \A p \in Slots :
        /\ req'[p].embeddingCalls <= 1
        /\ req'[p].generationCalls <= 1
        /\ req[p].pc = "embedding" /\ req'[p].pc \notin { "embedding", "generation" } =>
             Ended(req'[p]) /\ req'[p].generationCalls = 0
        /\ req[p].pc = "embedding" /\ req'[p].pc = "embedding" => req'[p] = req[p]
        /\ req[p].pc = "generation" => Ended(req'[p]) \/ req'[p] = req[p]
        /\ Ended(req[p]) => req'[p] = req[p] ]_vars

\* one call has thrown on a failure of its embedding, with no generation
\* call, and one on a failure of its generation, after one call of each
C21_Witness ==
  \E p, q \in Slots :
    /\ req[p].pc = "threw" /\ req[p].embeddingCalls = 1 /\ req[p].generationCalls = 0
    /\ req[q].pc = "threw" /\ req[q].embeddingCalls = 1 /\ req[q].generationCalls = 1


----------------------------------------------------------------------------
(* Properties of the intent                                                *)

\* the rules of intentPatterns whose pattern matches the query
MatchingRules(query) ==
  { r \in DOMAIN IntentRules : TestWords(toLowerCase(query), IntentRules[r].alts) }

\* C22: detectIntent returns null exactly when no rule matches the query, and
\* otherwise the label of the matching rule that no matching rule precedes;
\* an item with a positive base score has the intent boost exactly when its
\* intent is that label
C22_FirstRuleWins ==
  lastFind.called =>
    LET detected == detectIntent(lastFind.query)
        hits     == MatchingRules(lastFind.query)
    IN  /\ detected = NoText <=> hits = {}
        /\ \A r \in hits : (\A q \in hits : r <= q) => detected = IntentRules[r].intent
        /\ \A i \in DOMAIN lastFind.scores :
             lastFind.scores[i].baseScore > 0 =>
               lastFind.scores[i].boosts.intent =
                 IF detected # NoText /\ items[i].intent = detected THEN INTENT_BOOST ELSE 0

\* the query matches two rules; the item whose intent is the label of the
\* first has the intent boost, and the item whose intent is the label of the
\* later one has none
C22_Witness ==
  /\ lastFind.called
  /\ \E r, q \in MatchingRules(lastFind.query) :
       /\ r < q
       /\ \A x \in MatchingRules(lastFind.query) : r <= x
       /\ \E i, j \in DOMAIN lastFind.scores :
            /\ items[i].intent = IntentRules[r].intent
            /\ lastFind.scores[i].baseScore > 0
            /\ lastFind.scores[i].boosts.intent = INTENT_BOOST
            /\ items[j].intent = IntentRules[q].intent
            /\ lastFind.scores[j].baseScore > 0
            /\ lastFind.scores[j].boosts.intent = 0


----------------------------------------------------------------------------
(* Properties of the two procedural flags                                  *)

\* C27 as stated: the flag of the boosts (isProceduralQuery) and the flag of
\* the ranking and of the context (PatternMatcher.isProcedural) are equal on
\* the query of every call
C27_Original ==
  lastFind.called => (isProceduralQuery(lastFind.query) <=> isProcedural(lastFind.query))


----------------------------------------------------------------------------
(* Properties of the conversation history                                  *)

\* the call p ends in the step
EndsInStep(p) == ~Ended(req[p]) /\ Ended(req'[p])

\* the history of the session grows by one exchange, that of the question
AppendsExchange(sessionId, question) ==
  /\ sessionId \in DOMAIN conversationHistory'
  /\ LET before == HistoryOf(sessionId)
         after  == conversationHistory'[sessionId]
     IN  /\ Len(after) = Len(before) + 1
         /\ SubSeq(after, 1, Len(before)) = before
         /\ after[Len(after)].user = question

\* C28 as stated: a step in which a call returns or throws appends one
\* exchange for its question to the history of its session and leaves every
\* other history as it is
C28_Original ==
  [][ \A p \in Slots :
        EndsInStep(p) =>
          /\ AppendsExchange(req'[p].sessionId, req'[p].question)
          /\ \A s \in DOMAIN conversationHistory \ { req'[p].sessionId } :
               conversationHistory'[s] = conversationHistory[s] ]_vars


----------------------------------------------------------------------------
(* Properties of the fallback answer                                       *)

\* the answer is the text used when the completion has no content, as it is
\* or followed by a closing phrase
IsFallbackAnswer(answer) == Lit(answer, AtStart, AnswerFallback) # {}

\* C30 as stated: no entry of the cache holds a response whose answer is the
\* fallback text, and no call is answered with it from the cache
C30_Original ==
  /\ \A k \in DOMAIN cache : ~IsFallbackAnswer(cache[k].data.answer)
  /\ \A p \in Slots : req[p].hit => ~IsFallbackAnswer(req[p].response.answer)


----------------------------------------------------------------------------
(* Properties of the length of the conversation history                    *)

\* C26 as stated: the history of every session holds at most
\* MAX_HISTORY_LENGTH exchanges
C26_Original ==
  \A s \in DOMAIN conversationHistory : Len(conversationHistory[s]) <= MAX_HISTORY_LENGTH

\* what the code keeps: at most twice as many exchanges
HistoryWithinTwiceTheLength ==
  \A s \in DOMAIN conversationHistory :
    Len(conversationHistory[s]) <= MAX_HISTORY_LENGTH * 2


----------------------------------------------------------------------------
(* Properties of the history of the history-aware ChatBot                  *)

\* the array stored for the session
StoredHistory(sessionId) == historyArrays[conversationHistory[sessionId]]

\* the messages of the call are in the history, the answer after the question
HoldsExchange(history, r) ==
  \E i \in 1..(Len(history) - 1) :
    /\ history[i] = Message("user", r.question)
    /\ history[i + 1] = Message("assistant", r.response.answer)

\* both calls waited for a provider, and one began while the other waited
Overlapped(p, q) ==
  /\ req[p].embeddingCalls = 1
  /\ req[q].embeddingCalls = 1
  /\ p \in req[q].alongside \/ q \in req[p].alongside

\* C29 as stated: when two calls of one session that overlapped have both
\* returned, the stored history of the session holds the messages of both
C29_Original ==
  \A p, q \in Slots :
    ( /\ p # q
      /\ req[p].pc = "returned"
      /\ req[q].pc = "returned"
      /\ req[p].sessionId = req[q].sessionId
      /\ Overlapped(p, q) )
    => /\ Len(StoredHistory(req[p].sessionId)) >= 4
       /\ HoldsExchange(StoredHistory(req[p].sessionId), req[p])
       /\ HoldsExchange(StoredHistory(req[p].sessionId), req[q])

----------------------------------------------------------------------------
(* Properties of the context builders                                      *)

\* the history-aware build has returned its context
HistoryAwareBuilt ==
  lastFind.built /\ lastFind.builder = "history-aware" /\ ~lastFind.context.threw

\* the intent of the item of the n-th match in the order build takes them
IntentOfMatch(n) == items[lastFind.prioritized[n].index + 1].intent

\* the n-th match has a block of its own in the context
Emitted(n) == n \in Range(lastFind.context.blocks)

\* C23 (as stated): the deduplicating build emits every match whose score is
\* above 0.7, every match that carries no intent and the first match of each
\* intent, and it skips a match of at most 0.7 whose intent an earlier match
\* has emitted.
C23_Original ==
  HistoryAwareBuilt =>
    \A n \in DOMAIN lastFind.prioritized :
      /\ lastFind.prioritized[n].score > 70 => Emitted(n)
      /\ IntentOfMatch(n) = NoText => Emitted(n)
      /\ (\A m \in 1..(n - 1) : IntentOfMatch(m) # IntentOfMatch(n)) => Emitted(n)
      /\ ( /\ IntentOfMatch(n) # NoText
           /\ lastFind.prioritized[n].score <= 70
           /\ \E m \in 1..(n - 1) : Emitted(m) /\ IntentOfMatch(m) = IntentOfMatch(n) )
           => ~Emitted(n)

\* what the loop does: of the matches it comes to, it skips those whose
\* intent (or lack of one) an earlier emitted match has and whose score is
\* below 0.7, and emits the others
DeduplicationInTheLoop ==
  HistoryAwareBuilt =>
    \A n \in 1..lastFind.context.visited :
      Emitted(n) <=>
        ~( /\ lastFind.prioritized[n].score < 70
           /\ \E m \in 1..(n - 1) : Emitted(m) /\ IntentOfMatch(m) = IntentOfMatch(n) )

\* build has returned the context of at least one match
ContextBuilt == lastFind.built /\ ~lastFind.context.threw /\ Len(lastFind.prioritized) > 0

\* the length that the early exit compares the text with: 600 in the
\* procedural engine, 500 in the history-aware one
LengthBudget == IF lastFind.builder = "procedural" THEN 600 ELSE 500

\* the bound of the loop beside the number of matches: maxItems in the
\* procedural engine, none in the history-aware one
ItemLimit ==
  IF lastFind.builder = "procedural"
    THEN MaxItemsOf(config, isProcedural(lastFind.query))
    ELSE Len(lastFind.prioritized)

\* the j-th block left the text longer than the budget, and its match has a
\* score above 0.8
StopsAt(j) ==
  /\ lastFind.context.lengths[j] > LengthBudget
  /\ lastFind.prioritized[lastFind.context.blocks[j]].score > 80

\* every match up to the item limit has a block, in order
AllAppended ==
  lastFind.context.blocks =
    [ n \in 1..Min(Len(lastFind.prioritized), ItemLimit) |-> n ]

ProceduralBuilt ==
  lastFind.built /\ lastFind.builder = "procedural" /\ Len(lastFind.prioritized) > 0

\* the item of the first match in the order build takes them
TopItem == items[lastFind.prioritized[1].index + 1]

\* item r is linked from the item top, or is of its category or sub-category
IsRelatedTo(top, r) ==
  \/ r \in Range(top.related_questions)
  \/ top.category # NoText /\ toLowerCase(items[r + 1].category) = toLowerCase(top.category)
  \/ /\ top.sub_category # NoText
     /\ toLowerCase(items[r + 1].sub_category) = toLowerCase(top.sub_category)

\* the text of the matches, which the related section follows
MainText ==
  SubSeq(lastFind.context.contextText, 1,
         lastFind.context.lengths[Len(lastFind.context.lengths)])

\* C25 (as stated): for a procedural question the related content is that of
\* the first match: at most 4 values, no two the same, each an element of
\* items that the first item links to or shares its category or sub-category
\* with, and the first 3 of them follow the matches under the heading of the
\* related section; for another question there is no related content.
C25_Original ==
  ProceduralBuilt =>
    IF isProcedural(lastFind.query)
      THEN /\ lastFind.context.related = getRelatedContent(Store, lastFind.prioritized[1].index, 4)
           /\ Len(lastFind.context.related) <= 4
           /\ \A m, n \in DOMAIN lastFind.context.related :
                m # n => lastFind.context.related[m] # lastFind.context.related[n]
           /\ \A n \in DOMAIN lastFind.context.related :
                /\ lastFind.context.related[n] \in 0..(Len(items) - 1)
                /\ IsRelatedTo(TopItem, lastFind.context.related[n])
           /\ ~lastFind.context.threw
           /\ lastFind.context.contextText =
                IF lastFind.context.related = << >> THEN MainText
                ELSE MainText \o T_RelatedInformation
                       \o FlattenBlocks([ n \in 1..Min(3, Len(lastFind.context.related)) |->
                                            formatMatch(items[lastFind.context.related[n] + 1]) ])
      ELSE /\ lastFind.context.related = << >>
           /\ lastFind.context.contextText = MainText

\* no link of an item is negative
LinksAreIndexes ==
  \A n \in DOMAIN items : \A l \in DOMAIN items[n].related_questions :
    items[n].related_questions[l] >= 0

\* the related content is as stated when no link is negative
RelatedContentOfIndexes == LinksAreIndexes => C25_Original

=============================================================================
